---- MODULE Spec2Model ----
(***************************************************************************)
(* State-machine model of the decision-and-orchestration layer:            *)
(*   GameState      (src/src/core/game_state.py)                           *)
(*   MobController  (src/src/core/mob_controller.py)                       *)
(*   ComboManager   (src/src/core/combo_manager.py)                        *)
(*   BDOBot.cleanup (src/src/core/bot.py)                                  *)
(*                                                                         *)
(* Coroutines are modelled as call stacks of frames.  A frame is at one of *)
(* the positions "acquire" (about to enter `async with self._lock`),       *)
(* "exit" (body run, lock not yet released), "await" (waiting for a call   *)
(* it made to return) or "sleep" (inside asyncio.sleep); execute_combo     *)
(* also has "step", "finish" and "consume_mp" for the parts of its body.   *)
(* Scheduling is asyncio's: one coroutine runs at a time (cur) and the     *)
(* others run only once it is idle or suspended; a coroutine is suspended  *)
(* when it waits for the lock while the lock is held, or sleeps.           *)
(* Positions are integers on the x axis (y = z = 0), so distance_to is the *)
(* absolute difference.  Time is an integer clock read by time.time() and  *)
(* by the event loop's time().                                             *)
(***************************************************************************)
EXTENDS Integers, Sequences, FiniteSets, TLC

(* ------------------------------ bounds -------------------------------- *)
StartTime == 100
CdTicks == 3
MaxTicks == 1
MaxId == 3
MaxDet == 2
ComboTicks == 1
MaxRuns == 1
HistoryRuns == 51
CombatTicks == 1
CombatRuns == 1
ChaseIds == 4
TargetIds == 3

(* ----------------------------- constants ------------------------------ *)
hp_max == 100
mp_max == 100
match_distance == 5
mob_memory_time == 3
min_mob_count == 3
min_group_size == 3
max_chase_distance == 50
group_distance == 15
max_history == 50

Free == "free"
NoTask == "none"
None == <<>>

Tasks == {"loop", "ext1", "ext2"}

CharacterState == {"idle", "moving", "combat", "dead", "stunned", "knockdown", "frozen"}
CombatState == {"none", "attacking", "defending", "chasing", "escaping"}

PosVals == {0, 3}
HpVals == {0, 100}
MpVals == {10, 100}
SkillIds == {"A", "B"}
DurVals == {0, 1, 2}

MaxTime == StartTime + MaxTicks

(* ------------------------------ state --------------------------------- *)
VARIABLES
    character_state, combat_state, position, stats, last_update,
    skill_cooldowns, active_buffs, detected_mobs, targeted_mob, nearby_players,
    lock, now, stack, cur, raised,
    tracked_mobs, mob_id_counter, purged, alloc_log, cleaned,
    cd_started,
    combos, current_combo, last_combo_time, successful_skills, total_skills,
    combo_history, held, result, exec_log, emitted, released, call,
    in_combat, current_target, mc_current_target, last_pvp_check, metrics,
    trace, selection,
    current_route, current_waypoint_index, alternative_route, last_position,
    stuck_counter, next_point, loaded, moved

gsVars == <<character_state, combat_state, position, stats, last_update,
            skill_cooldowns, active_buffs, detected_mobs, targeted_mob,
            nearby_players>>
mcVars == <<tracked_mobs, mob_id_counter, purged, alloc_log, cleaned, selection>>
cdVars == <<cd_started>>
cmHistory == <<exec_log, emitted, released, call>>
cmVars == <<combos, current_combo, last_combo_time, successful_skills,
           total_skills, combo_history, held, result, cmHistory>>
csVars == <<in_combat, current_target, mc_current_target, last_pvp_check,
           metrics, trace>>
rmVars == <<current_route, current_waypoint_index, alternative_route,
            last_position, stuck_counter, next_point, loaded, moved>>
otherVars == <<mcVars, cmVars, csVars, rmVars>>
vars == <<gsVars, lock, now, stack, cur, raised, otherVars, cdVars>>

(* ----------------------------- helpers -------------------------------- *)
Abs(x) == IF x < 0 THEN -x ELSE x

distance_to(a, b) == Abs(a - b)

Frame(op, arg) == [op |-> op, pc |-> "acquire", arg |-> arg]

Idle(t) == stack[t] = <<>>
Top(t) == stack[t][Len(stack[t])]
At(t, op, pc) == ~Idle(t) /\ Top(t).op = op /\ Top(t).pc = pc
HasFrame(t, op, pc) == \E i \in 1..Len(stack[t]) : stack[t][i].op = op /\ stack[t][i].pc = pc

SetTopOf(st, f) == [st EXCEPT ![Len(st)] = f]
SetPc(t, pc) == SetTopOf(stack[t], [Top(t) EXCEPT !.pc = pc])

(* Where a caller continues once the call it awaits has returned:        *)
(* execute_combo still has _consume_mp to run (combo_manager.py line 177), *)
(* CombatSystem.update goes on with the statements after the await, every  *)
(* other caller only has its own exit left.                                *)
AfterAwait(op) ==
    IF op = "execute_combo" THEN "consume_mp"
    ELSE IF op = "update" THEN "resume"
    ELSE "exit"

(* A frame that awaited a call goes on. *)
Resumed(below) ==
    IF below = <<>> THEN below
    ELSE SetTopOf(below, [below[Len(below)] EXCEPT
                              !.pc = AfterAwait(below[Len(below)].op)])

(* The callee returned: the caller's frame, if any, goes on. *)
Returned(st) ==
    LET below == SubSeq(st, 1, Len(st) - 1)
    IN IF below # <<>> /\ below[Len(below)].pc = "await"
       THEN SetTopOf(below, [below[Len(below)] EXCEPT
                                 !.pc = AfterAwait(below[Len(below)].op)])
       ELSE below

MobIds(mobs) == {mobs[i].id : i \in 1..Len(mobs)}

(* Operations whose body runs inside `async with self._lock`. *)
MutatingOps ==
    {"update_position", "update_stats", "update_combat_state",
     "update_skill_cooldowns", "start_skill_cooldown", "update_buffs",
     "update_mobs", "update_nearby_players"}

TakesLock_skip(op) == op \in MutatingOps \ {"update_stats"}

TakesLock(op) == op \in MutatingOps

InCS(f) == f.op \in MutatingOps /\ f.pc \in {"await", "exit"}

CSFrames ==
    {ti \in Tasks \X (1..3) : ti[2] <= Len(stack[ti[1]]) /\ InCS(stack[ti[1]][ti[2]])}

(* ---------------------------- scheduling ------------------------------ *)
(* st is t's stack and l the lock after a step of t: t keeps running       *)
(* unless it returned to the event loop, sleeps, or waits for a held lock. *)
Suspends(st, l) ==
    \/ st = <<>>
    \/ st[Len(st)].pc = "sleep"
    \/ st[Len(st)].pc = "acquire" /\ TakesLock(st[Len(st)].op) /\ l # Free

NextCur(t, st, l) == IF Suspends(st, l) THEN NoTask ELSE t

MayRun(t) == cur \in {t, NoTask}

(* `async with self._lock`, entry: the lock is not re-entrant, so a task   *)
(* that already holds it waits like any other.                             *)
Enter(t, op) ==
    /\ MayRun(t)
    /\ At(t, op, "acquire")
    /\ TakesLock(op) => lock = Free

Entered(t, op) == IF TakesLock(op) THEN t ELSE lock

(* ------------------------------- Init --------------------------------- *)
Init ==
    /\ character_state = "idle"
    /\ combat_state = "none"
    /\ position = 0
    /\ stats = [hp |-> 100, mp |-> 100]
    /\ last_update = StartTime
    /\ skill_cooldowns = <<>>
    /\ active_buffs = <<>>
    /\ detected_mobs = <<>>
    /\ targeted_mob = None
    /\ nearby_players = <<>>
    /\ lock = Free
    /\ now = StartTime
    /\ stack = [t \in Tasks |-> <<>>]
    /\ cur = NoTask
    /\ raised = [t \in Tasks |-> FALSE]
    /\ tracked_mobs = <<>>
    /\ mob_id_counter = 0
    /\ purged = {}
    /\ alloc_log = <<>>
    /\ cleaned = FALSE
    /\ cd_started = <<>>
    /\ combos = <<>>
    /\ current_combo = None
    /\ last_combo_time = 0
    /\ successful_skills = 0
    /\ total_skills = 0
    /\ combo_history = <<>>
    /\ held = {}
    /\ result = "none"
    /\ exec_log = <<>>
    /\ emitted = <<>>
    /\ released = {}
    /\ call = [name |-> "none", accepted |-> FALSE, successful |-> 0,
               total |-> 0, flip |-> FALSE]
    /\ in_combat = FALSE
    /\ current_target = None
    /\ mc_current_target = None
    /\ last_pvp_check = 0
    /\ metrics = [kills |-> 0, combat_time |-> 0, skill_accuracy |-> <<0, 1>>]
    /\ trace = <<>>
    /\ selection = None
    /\ current_route = None
    /\ current_waypoint_index = 0
    /\ alternative_route = None
    /\ last_position = None
    /\ stuck_counter = 0
    /\ next_point = None
    /\ loaded = "none"
    /\ moved = <<>>

(* `async with self._lock`, exit, and the return to the caller's frame. *)
Exit(t) ==
    /\ MayRun(t)
    /\ ~Idle(t)
    /\ Top(t).pc = "exit"
    /\ lock' = IF TakesLock(Top(t).op) THEN Free ELSE lock
    /\ stack' = [stack EXCEPT ![t] = Returned(stack[t])]
    /\ cur' = NextCur(t, stack'[t], lock')
    /\ UNCHANGED <<gsVars, now, raised>>
    /\ UNCHANGED otherVars
    /\ UNCHANGED cdVars

(* ------------------------------ clock --------------------------------- *)
(* Time passes while the event loop is between coroutines. *)
TickTo(limit) ==
    /\ cur = NoTask
    /\ now < limit
    /\ now' = now + 1
    /\ UNCHANGED <<gsVars, lock, stack, cur, raised>>
    /\ UNCHANGED otherVars
    /\ UNCHANGED cdVars

Tick == TickTo(MaxTime)

(* ------------------------- GameState operations ------------------------ *)
(* A task outside any call invokes one operation of the public interface. *)
CallOf(t, frames) ==
    /\ cur = NoTask
    /\ Idle(t)
    /\ \E f \in frames :
          /\ stack' = [stack EXCEPT ![t] = <<f>>]
          /\ cur' = NextCur(t, <<f>>, lock)
    /\ raised' = [raised EXCEPT ![t] = FALSE]
    /\ UNCHANGED <<gsVars, lock, now>>
    /\ UNCHANGED otherVars
    /\ UNCHANGED cdVars

(* update_position, lines 105-122.  With time_diff <= 0 `distance` is      *)
(* never bound and line 119 raises after the position was committed; the   *)
(* `async with` still releases the lock.                                   *)
MovementState(cs, distance) ==
    IF distance * 10 > 1 THEN "moving"
    ELSE IF cs = "moving" THEN "idle" ELSE cs

update_position(t) ==
    /\ Enter(t, "update_position")
    /\ LET new_pos == Top(t).arg
           time_diff == now - last_update
       IN /\ position' = new_pos
          /\ last_update' = now
          /\ IF time_diff > 0
             THEN /\ character_state' =
                        MovementState(character_state, distance_to(position, new_pos))
                  /\ UNCHANGED raised
             ELSE /\ UNCHANGED character_state
                  /\ raised' = [raised EXCEPT ![t] = TRUE]
    /\ lock' = Entered(t, "update_position")
    /\ stack' = [stack EXCEPT ![t] = SetPc(t, "exit")]
    /\ cur' = t
    /\ UNCHANGED <<combat_state, stats, skill_cooldowns, active_buffs,
                   detected_mobs, targeted_mob, nearby_players, now>>
    /\ UNCHANGED otherVars
    /\ UNCHANGED cdVars

(* update_stats, lines 127-137. *)
Merged(old, d, k) == IF k \in DOMAIN d THEN d[k] ELSE old[k]

DeadIfNoHp_negative(cs, hp) == IF hp < 0 THEN "dead" ELSE cs

DeadIfNoHp(cs, hp) == IF hp <= 0 THEN "dead" ELSE cs

update_stats(t) ==
    /\ Enter(t, "update_stats")
    /\ LET d == Top(t).arg
           hp == Merged(stats, d, "hp")
           mp == Merged(stats, d, "mp")
       IN /\ stats' = [hp |-> hp, mp |-> mp]
          /\ character_state' = DeadIfNoHp(character_state, hp)
    /\ lock' = Entered(t, "update_stats")
    /\ stack' = [stack EXCEPT ![t] = SetPc(t, "exit")]
    /\ cur' = t
    /\ UNCHANGED <<combat_state, position, last_update, skill_cooldowns,
                   active_buffs, detected_mobs, targeted_mob, nearby_players,
                   now, raised>>
    /\ UNCHANGED otherVars
    /\ UNCHANGED cdVars

(* update_combat_state, lines 142-147. *)
CoupledCharacterState(cs, old, new) ==
    IF new = old THEN cs
    ELSE IF new = "attacking" THEN "combat"
    ELSE IF new = "none" /\ cs = "combat" THEN "idle"
    ELSE cs

update_combat_state(t) ==
    /\ Enter(t, "update_combat_state")
    /\ LET new_state == Top(t).arg
       IN /\ character_state' =
                CoupledCharacterState(character_state, combat_state, new_state)
          /\ combat_state' = new_state
    /\ lock' = Entered(t, "update_combat_state")
    /\ stack' = [stack EXCEPT ![t] = SetPc(t, "exit")]
    /\ cur' = t
    /\ UNCHANGED <<position, stats, last_update, skill_cooldowns, active_buffs,
                   detected_mobs, targeted_mob, nearby_players, now, raised>>
    /\ UNCHANGED otherVars
    /\ UNCHANGED cdVars

(* update_skill_cooldowns, lines 152-160: drop every entry whose end time  *)
(* has been reached.                                                       *)
Expired(end_time, current_time) == current_time >= end_time

SweepCooldowns_inverted(cds, current_time) ==
    [s \in {k \in DOMAIN cds : Expired(cds[k].remaining_time, current_time)}
        |-> cds[s]]

SweepCooldowns(cds, current_time) ==
    [s \in {k \in DOMAIN cds : ~Expired(cds[k].remaining_time, current_time)}
        |-> cds[s]]

update_skill_cooldowns(t) ==
    /\ Enter(t, "update_skill_cooldowns")
    /\ skill_cooldowns' = SweepCooldowns(skill_cooldowns, now)
    /\ lock' = Entered(t, "update_skill_cooldowns")
    /\ stack' = [stack EXCEPT ![t] = SetPc(t, "exit")]
    /\ cur' = t
    /\ UNCHANGED <<character_state, combat_state, position, stats, last_update,
                   active_buffs, detected_mobs, targeted_mob, nearby_players,
                   now, raised>>
    /\ UNCHANGED otherVars
    /\ UNCHANGED cdVars

(* start_skill_cooldown, lines 165-170.  cd_started is a history variable: *)
(* per skill, when its cooldown was last started, for how long, and        *)
(* whether GameState.cleanup has run since (wiped).                        *)
SkillCooldown(skill_id, end_time, duration) ==
    [skill_id |-> skill_id, remaining_time |-> end_time, total_cooldown |-> duration]

WithEntry(map, key, value) ==
    [k \in DOMAIN map \cup {key} |-> IF k = key THEN value ELSE map[k]]

start_skill_cooldown(t) ==
    /\ Enter(t, "start_skill_cooldown")
    /\ LET a == Top(t).arg
       IN /\ skill_cooldowns' =
                WithEntry(skill_cooldowns, a.skill_id,
                          SkillCooldown(a.skill_id, now + a.duration, a.duration))
          /\ cd_started' =
                WithEntry(cd_started, a.skill_id,
                          [at |-> now, duration |-> a.duration, wiped |-> FALSE])
    /\ lock' = Entered(t, "start_skill_cooldown")
    /\ stack' = [stack EXCEPT ![t] = SetPc(t, "exit")]
    /\ cur' = t
    /\ UNCHANGED <<character_state, combat_state, position, stats, last_update,
                   active_buffs, detected_mobs, targeted_mob, nearby_players,
                   now, raised>>
    /\ UNCHANGED otherVars

(* can_use_skill, lines 174-177: reads without the lock. *)
can_use_skill(skill_id) ==
    IF skill_id \notin DOMAIN skill_cooldowns THEN TRUE
    ELSE now >= skill_cooldowns[skill_id].remaining_time

(* update_buffs, lines 181-190. *)
SweepBuffs_strict(buffs, current_time) ==
    [b \in {k \in DOMAIN buffs : buffs[k] >= current_time} |-> buffs[b]]

SweepBuffs(buffs, current_time) ==
    [b \in {k \in DOMAIN buffs : ~Expired(buffs[k], current_time)} |-> buffs[b]]

update_buffs(t) ==
    /\ Enter(t, "update_buffs")
    /\ active_buffs' = SweepBuffs(active_buffs, now)
    /\ lock' = Entered(t, "update_buffs")
    /\ stack' = [stack EXCEPT ![t] = SetPc(t, "exit")]
    /\ cur' = t
    /\ UNCHANGED <<character_state, combat_state, position, stats, last_update,
                   skill_cooldowns, detected_mobs, targeted_mob, nearby_players,
                   now, raised>>
    /\ UNCHANGED otherVars
    /\ UNCHANGED cdVars

(* update_mobs, lines 195-209.  targeted_mob is None (<<>>) or <<mob>>.    *)
(* The frame records what the body found: cleared (a target was set and    *)
(* is absent from the list) and was_attacking (CombatState at that point). *)
(* Line 209 calls update_combat_state while the lock is still held.        *)
UpdateMobsArg(mobs) == [mobs |-> mobs, cleared |-> FALSE, was_attacking |-> FALSE]

FirstWithId(mobs, id) ==
    LET hits == {i \in 1..Len(mobs) : mobs[i].id = id}
    IN IF hits = {} THEN 0 ELSE CHOOSE i \in hits : \A j \in hits : i <= j

update_mobs(t) ==
    /\ Enter(t, "update_mobs")
    /\ LET mobs == Top(t).arg.mobs
           found == IF targeted_mob = None THEN 0
                    ELSE FirstWithId(mobs, targeted_mob[1].id)
           cleared == targeted_mob # None /\ found = 0
           nested == cleared /\ combat_state = "attacking"
           frame == [Top(t) EXCEPT
                        !.arg = [mobs |-> mobs, cleared |-> cleared,
                                 was_attacking |-> combat_state = "attacking"],
                        !.pc = IF nested THEN "await" ELSE "exit"]
           st == IF nested
                 THEN Append(SetTopOf(stack[t], frame),
                             Frame("update_combat_state", "none"))
                 ELSE SetTopOf(stack[t], frame)
       IN /\ detected_mobs' = mobs
          /\ targeted_mob' = IF targeted_mob = None \/ found = 0 THEN None
                             ELSE <<mobs[found]>>
          /\ lock' = Entered(t, "update_mobs")
          /\ stack' = [stack EXCEPT ![t] = st]
          /\ cur' = NextCur(t, st, lock')
    /\ UNCHANGED <<character_state, combat_state, position, stats, last_update,
                   skill_cooldowns, active_buffs, nearby_players, now, raised>>
    /\ UNCHANGED otherVars
    /\ UNCHANGED cdVars

(* update_nearby_players, lines 213-219 (the threat is only logged). *)
update_nearby_players(t) ==
    /\ Enter(t, "update_nearby_players")
    /\ nearby_players' = Top(t).arg
    /\ lock' = Entered(t, "update_nearby_players")
    /\ stack' = [stack EXCEPT ![t] = SetPc(t, "exit")]
    /\ cur' = t
    /\ UNCHANGED <<character_state, combat_state, position, stats, last_update,
                   skill_cooldowns, active_buffs, detected_mobs, targeted_mob,
                   now, raised>>
    /\ UNCHANGED otherVars
    /\ UNCHANGED cdVars

(* targeted_mob (line 87) is a public attribute: a client assigns it one   *)
(* of the projected entities, between coroutine steps.                     *)
set_targeted_mob ==
    /\ cur = NoTask
    /\ \E i \in 1..Len(detected_mobs) : targeted_mob' = <<detected_mobs[i]>>
    /\ targeted_mob' # targeted_mob
    /\ UNCHANGED <<character_state, combat_state, position, stats, last_update,
                   skill_cooldowns, active_buffs, detected_mobs, nearby_players,
                   lock, now, stack, cur, raised>>
    /\ UNCHANGED otherVars
    /\ UNCHANGED cdVars

(* ------------------- Spec: the GameState interface -------------------- *)
MobDict(i) == [id |-> i, position |-> 0, distance |-> 0, is_elite |-> FALSE]
MobLists == {<<>>, <<MobDict(1)>>, <<MobDict(2)>>, <<MobDict(1), MobDict(2)>>}
PlayerLists == {<<>>, <<[is_hostile |-> TRUE]>>}
StatsInputs == {[hp |-> h] : h \in HpVals} \cup {[mp |-> m] : m \in MpVals}

Callers == {"ext1", "ext2"}

StateCalls ==
    {Frame("update_position", p) : p \in PosVals}
    \cup {Frame("update_stats", d) : d \in StatsInputs}
    \cup {Frame("update_combat_state", c) : c \in CombatState}
    \cup {Frame("update_mobs", UpdateMobsArg(m)) : m \in MobLists}
    \cup {Frame("update_nearby_players", p) : p \in PlayerLists}
    \cup {Frame("update_buffs", <<>>)}

Call(t) == CallOf(t, StateCalls)

Next ==
    \/ \E t \in Callers : Call(t)
    \/ \E t \in Tasks : Exit(t)
    \/ \E t \in Tasks : update_position(t)
    \/ \E t \in Tasks : update_stats(t)
    \/ \E t \in Tasks : update_combat_state(t)
    \/ \E t \in Tasks : update_mobs(t)
    \/ \E t \in Tasks : update_nearby_players(t)
    \/ \E t \in Tasks : update_buffs(t)
    \/ set_targeted_mob
    \/ Tick

Spec == Init /\ [][Next]_vars

TypeOK ==
    /\ character_state \in CharacterState
    /\ combat_state \in CombatState
    /\ lock \in Tasks \cup {Free}
    /\ cur \in Tasks \cup {NoTask}

(* GameState.cleanup, lines 245-248: synchronous, takes no lock. *)
gs_cleanup ==
    /\ cur = NoTask
    /\ skill_cooldowns' = <<>>
    /\ active_buffs' = <<>>
    /\ detected_mobs' = <<>>
    /\ nearby_players' = <<>>
    /\ cd_started' = [s \in DOMAIN cd_started |-> [cd_started[s] EXCEPT !.wiped = TRUE]]
    /\ UNCHANGED <<character_state, combat_state, position, stats, last_update,
                   targeted_mob, lock, now, stack, cur, raised>>
    /\ UNCHANGED otherVars

(* ---------------- SpecCooldown: the skill cooldown map ---------------- *)
CooldownCalls ==
    {Frame("start_skill_cooldown", [skill_id |-> s, duration |-> d]) :
         s \in SkillIds, d \in DurVals}
    \cup {Frame("update_skill_cooldowns", <<>>)}

CooldownCall(t) == CallOf(t, CooldownCalls)

CooldownTick == TickTo(StartTime + CdTicks)

CooldownNext ==
    \/ CooldownCall("ext1")
    \/ Exit("ext1")
    \/ start_skill_cooldown("ext1")
    \/ update_skill_cooldowns("ext1")
    \/ gs_cleanup
    \/ CooldownTick

SpecCooldown == Init /\ [][CooldownNext]_vars

(* ------------- SpecSweep: the two maintenance sweeps ------------------ *)
(* active_buffs (line 81, buff_id -> end time) is a public dict that no    *)
(* method fills: a client stores an end time in it, between coroutine      *)
(* steps.                                                                  *)
BuffIds == {"X"}

set_active_buff ==
    /\ cur = NoTask
    /\ \E b \in BuffIds, d \in DurVals :
          active_buffs' = WithEntry(active_buffs, b, now + d)
    /\ active_buffs' # active_buffs
    /\ UNCHANGED <<character_state, combat_state, position, stats, last_update,
                   skill_cooldowns, detected_mobs, targeted_mob, nearby_players,
                   lock, now, stack, cur, raised>>
    /\ UNCHANGED otherVars
    /\ UNCHANGED cdVars

SweepCalls ==
    {Frame("start_skill_cooldown", [skill_id |-> "A", duration |-> d]) :
         d \in DurVals}
    \cup {Frame("update_skill_cooldowns", <<>>), Frame("update_buffs", <<>>)}

SweepCall(t) == CallOf(t, SweepCalls)

SweepNext ==
    \/ SweepCall("ext1")
    \/ SweepCall("ext2")
    \/ Exit("ext1")
    \/ Exit("ext2")
    \/ start_skill_cooldown("ext1")
    \/ start_skill_cooldown("ext2")
    \/ update_skill_cooldowns("ext1")
    \/ update_skill_cooldowns("ext2")
    \/ update_buffs("ext1")
    \/ update_buffs("ext2")
    \/ set_active_buff
    \/ CooldownTick

SpecSweep == Init /\ [][SweepNext]_vars

(* --------------------------- MobController ---------------------------- *)
(* tracked_mobs is a dict in insertion order: a sequence of MobInfo with   *)
(* distinct mob_id.  purged (the ids dropped from the table so far),       *)
(* alloc_log (the ids handed out, in order) and cleaned (cleanup has run)  *)
(* are history variables, and so is selection (the table select_target    *)
(* last ran on, with what it returned).  A detection is a dict read as in  *)
(* lines 56-82: pos is the world position of its bbox centre, elite says   *)
(* whether the key 'elite' is present, and area is the width times the     *)
(* height of the bbox (10 by 10 unless said otherwise).                    *)
BboxArea == 100
DetPos == {1, 4, 20}
Detection ==
    [pos : DetPos, elite : {FALSE}, area : {BboxArea}]
    \cup {[pos |-> 20, elite |-> TRUE, area |-> BboxArea]}
Detections == UNION {[1..n -> Detection] : n \in 0..MaxDet}

TrackedIds == {tracked_mobs[i].mob_id : i \in 1..Len(tracked_mobs)}

MobInfo(mob_id, at, distance, last_seen, is_elite, threat_level) ==
    [mob_id |-> mob_id, position |-> at, health |-> 100,
     distance |-> distance, last_seen |-> last_seen, is_elite |-> is_elite,
     threat_level |-> threat_level]

(* _calculate_threat_level, lines 128-143, in thousandths: the bbox area   *)
(* (width times height) over 10000, plus 0.3 because a detection carries   *)
(* no 'distance' key and the default 0 is below 10; the detections of the  *)
(* model carry no 'is_elite' key, so the 0.5 of line 136 is never added.   *)
_calculate_threat_level(detection) ==
    LET threat == detection.area \div 10 + 300
    IN IF threat > 1000 THEN 1000 ELSE threat

(* _find_matching_mob, lines 103-112: index of the nearest tracked mob     *)
(* within the match distance (the first one on ties), 0 for no match.      *)
RECURSIVE FindFrom(_, _, _, _)
FindFrom(tracked, at, i, best) ==
    IF i > Len(tracked) THEN best
    ELSE LET dist == distance_to(tracked[i].position, at)
             closer == best = 0 \/ dist < distance_to(tracked[best].position, at)
         IN FindFrom(tracked, at, i + 1,
                     IF closer /\ dist < match_distance THEN i ELSE best)

_find_matching_mob(tracked, at) == FindFrom(tracked, at, 1, 0)

_generate_mob_id_wrap(counter) == IF counter >= 2 THEN 1 ELSE counter + 1

(* _generate_mob_id, lines 155-156. *)
_generate_mob_id(counter) == counter + 1

(* current_mobs[mob_id] = mob, lines 69 and 84. *)
DictSet(current, mob) ==
    LET hits == {i \in 1..Len(current) : current[i].mob_id = mob.mob_id}
    IN IF hits = {} THEN Append(current, mob)
       ELSE [current EXCEPT ![CHOOSE i \in hits : TRUE] = mob]

(* The loop of lines 55-84.  A matched MobInfo is updated in place, so     *)
(* the table the later detections are matched against changes with it.     *)
(* spawned lists the ids handed out, in order.                              *)
RECURSIVE TrackFrom(_, _, _, _, _, _, _, _)
TrackFrom(dets, i, tracked, current, counter, spawned, player_pos, time) ==
    IF i > Len(dets)
    THEN [tracked |-> tracked, current |-> current, counter |-> counter,
          spawned |-> spawned]
    ELSE LET at == dets[i].pos
             distance == distance_to(player_pos, at)
             m == _find_matching_mob(tracked, at)
         IN IF m # 0
            THEN LET mob == [tracked[m] EXCEPT !.position = at,
                                               !.distance = distance,
                                               !.last_seen = time]
                 IN TrackFrom(dets, i + 1, [tracked EXCEPT ![m] = mob],
                              DictSet(current, mob), counter, spawned,
                              player_pos, time)
            ELSE LET mob_id == _generate_mob_id(counter)
                     new_mob == MobInfo(mob_id, at, distance, time, dets[i].elite,
                                        _calculate_threat_level(dets[i]))
                 IN TrackFrom(dets, i + 1, tracked, DictSet(current, new_mob),
                              mob_id, Append(spawned, mob_id), player_pos, time)

(* _cleanup_old_mobs, lines 147-151. *)
_cleanup_old_mobs(tracked, current_time) ==
    SelectSeq(tracked, LAMBDA mob : ~(current_time - mob.last_seen > mob_memory_time))

(* _mob_info_to_dict, lines 208-221. *)
_mob_info_to_dict(mob) ==
    [id |-> mob.mob_id, position |-> mob.position, distance |-> mob.distance,
     is_elite |-> mob.is_elite]

Projection(mobs) == [i \in 1..Len(mobs) |-> _mob_info_to_dict(mobs[i])]

IdsOf(mobs) == {mobs[i].mob_id : i \in 1..Len(mobs)}

(* process_frame, lines 47-95, up to the call of update_mobs: the table is *)
(* replaced (line 88) and the projection is built before update_mobs asks  *)
(* for the lock.  The sweep of line 87 works on the table line 88 drops.   *)
(* A target is a reference to a MobInfo object: a matched entity is        *)
(* updated in place (lines 64-68), so whoever holds it sees the new        *)
(* fields; an entity that is not matched stays as it was when last seen.   *)
Aliased(target, current) ==
    IF target # None /\ \E i \in 1..Len(current) : current[i].mob_id = target[1].mob_id
    THEN <<current[CHOOSE i \in 1..Len(current) : current[i].mob_id = target[1].mob_id]>>
    ELSE target

ProcessFrameOf(t, frames, max_id) ==
    /\ cur = NoTask
    /\ Idle(t)
    /\ \E dets \in frames :
        \E r \in {TrackFrom(dets, 1, tracked_mobs, <<>>, mob_id_counter, <<>>,
                            position, now)} :
          LET swept == _cleanup_old_mobs(r.tracked, now)
              st == <<[op |-> "process_frame", pc |-> "await", arg |-> <<>>],
                      Frame("update_mobs", UpdateMobsArg(Projection(r.current)))>>
          IN /\ r.counter <= max_id
             /\ tracked_mobs' = r.current
             /\ mob_id_counter' = r.counter
             /\ purged' = purged \cup (IdsOf(tracked_mobs) \ IdsOf(r.current))
             /\ alloc_log' = alloc_log \o r.spawned
             /\ stack' = [stack EXCEPT ![t] = st]
             /\ cur' = NextCur(t, st, lock)
             /\ current_target' = Aliased(current_target, r.current)
             /\ mc_current_target' = Aliased(mc_current_target, r.current)
    /\ raised' = [raised EXCEPT ![t] = FALSE]
    /\ UNCHANGED <<gsVars, lock, now, cleaned, selection>>
    /\ UNCHANGED cmVars
    /\ UNCHANGED <<in_combat, last_pvp_check, metrics, trace>>
    /\ UNCHANGED cdVars
    /\ UNCHANGED rmVars

process_frame(t) == ProcessFrameOf(t, Detections, MaxId)

(* MobController.cleanup, lines 274-276, as run by BDOBot.cleanup, lines   *)
(* 259-268: the sub-systems are cleaned synchronously, GameState.cleanup   *)
(* is not among them, and line 268 calls InputHandler.release_all, which   *)
(* InputHandler does not define, so the call raises.                       *)
CounterAfterCleanup_reset(counter) == 0

CounterAfterCleanup(counter) == counter

cleanup(t) ==
    /\ cur = NoTask
    /\ Idle(t)
    /\ tracked_mobs' = <<>>
    /\ mob_id_counter' = CounterAfterCleanup(mob_id_counter)
    /\ purged' = purged \cup IdsOf(tracked_mobs)
    /\ cleaned' = TRUE
    /\ combos' = <<>>
    /\ combo_history' = <<>>
    /\ current_combo' = None
    /\ raised' = [raised EXCEPT ![t] = TRUE]
    /\ UNCHANGED <<gsVars, lock, now, stack, cur, alloc_log, selection>>
    /\ UNCHANGED <<last_combo_time, successful_skills, total_skills, held,
                   result, cmHistory>>
    /\ in_combat' = FALSE
    /\ current_target' = None
    /\ mc_current_target' = None
    /\ metrics' = [kills |-> 0, combat_time |-> 0, skill_accuracy |-> <<0, 1>>]
    /\ UNCHANGED <<last_pvp_check, trace>>
    /\ UNCHANGED cdVars
    /\ current_route' = None
    /\ alternative_route' = None
    /\ last_position' = None
    /\ stuck_counter' = 0
    /\ moved' = <<>>
    /\ UNCHANGED <<current_waypoint_index, next_point, loaded>>

(* ------------- SpecTrack: perception cycles and cleanup --------------- *)
(* The control loop runs the cycles and the cleanup; nothing else writes   *)
(* the tracked table or the projection.                                    *)
TrackNext ==
    \/ process_frame("loop")
    \/ cleanup("loop")
    \/ Exit("loop")
    \/ update_mobs("loop")
    \/ Tick

SpecTrack == Init /\ [][TrackNext]_vars

(* ---------------------------- ComboManager ---------------------------- *)
(* combos is the dict of loaded combos in insertion order; combo_history   *)
(* holds (name, timestamp) pairs; held is the set of keys that are down;   *)
(* result is what the last finished execute_combo returned.  History       *)
(* variables: exec_log is every execution ever started, never truncated;   *)
(* emitted is the list of key events the steps of the current or last      *)
(* execute_combo call sent to the input handler; released is the set of    *)
(* keys the last release_all_keys released; call is the last execute_combo *)
(* call: the name asked for, whether the call got past line 127, and the   *)
(* counters at that moment (flip tells two successive calls apart).        *)
ComboAction(keys, action_type, duration, animation_time) ==
    [keys |-> keys, action_type |-> action_type, duration |-> duration,
     animation_time |-> animation_time]

(* conditions['check'] is data of the class script; the model keeps the    *)
(* truth value it evaluates to.                                            *)
Combo(name, actions, cooldown, mp_cost, range_type, check) ==
    [name |-> name, actions |-> actions, cooldown |-> cooldown,
     mp_cost |-> mp_cost, range_type |-> range_type, check |-> check]

(* The combos table of a class script. *)
ClassTable ==
    << Combo("A", << ComboAction(<<"shift", "q">>, "hold", 0, 0),
                     ComboAction(<<"e">>, "press", 0, 1) >>,
             2, 30, "close", TRUE),
       Combo("B", << ComboAction(<<"f">>, "press", 0, 0) >>,
             0, 0, "mid", TRUE),
       Combo("X", << ComboAction(<<"x">>, "press", 0, 0) >>,
             0, 0, "close", FALSE),
       Combo("E", << ComboAction(<<"space">>, "press", 0, 0) >>,
             1, 10, "escape", TRUE) >>

ComboNames == {combos[i].name : i \in 1..Len(combos)}

ComboNamed(name) ==
    combos[CHOOSE i \in 1..Len(combos) : combos[i].name = name]

(* self.combos[combo_name] = combo, for each combo of the table. *)
RECURSIVE LoadFrom(_, _, _)
LoadFrom(table, i, dict) ==
    IF i > Len(table) THEN dict
    ELSE LET c == table[i]
             at == {k \in 1..Len(dict) : dict[k].name = c.name}
         IN LoadFrom(table, i + 1,
                     IF at = {} THEN Append(dict, c)
                     ELSE [dict EXCEPT ![CHOOSE k \in at : TRUE] = c])

load_class_combos(t) ==
    /\ cur = NoTask
    /\ Idle(t)
    /\ combos' = LoadFrom(ClassTable, 1, combos)
    /\ UNCHANGED <<current_combo, last_combo_time, successful_skills,
                   total_skills, combo_history, held, result, cmHistory>>
    /\ UNCHANGED <<gsVars, lock, now, stack, cur, raised, mcVars, cdVars, csVars>>
    /\ UNCHANGED rmVars

(* next((_time for name, _time in reversed(history) if name == n), 0) *)
RECURSIVE LastUseFrom(_, _, _)
LastUseFrom(history, i, name) ==
    IF i = 0 THEN 0
    ELSE IF history[i].name = name THEN history[i].time
    ELSE LastUseFrom(history, i - 1, name)

LastUse(name) == LastUseFrom(combo_history, Len(combo_history), name)

_check_cooldown(combo) == now - LastUse(combo.name) >= combo.cooldown

_check_combo_conditions_no_mp(combo) ==
    /\ _check_cooldown(combo)
    /\ combo.check

_check_combo_conditions(combo) ==
    /\ _check_cooldown(combo)
    /\ ~(stats.mp < combo.mp_cost)
    /\ combo.check

_check_action_conditions_skipped == TRUE

_check_action_conditions ==
    /\ character_state \notin {"stunned", "knockdown", "dead"}
    /\ ~(stats.hp <= 0)

(* Twice the score of lines 223-243, to stay in the integers. *)
_calculate_combo_score(combo, criteria) ==
    (IF criteria.range_type = combo.range_type THEN 4 ELSE 0)
    + (IF 10 * combo.mp_cost <= 3 * stats.mp THEN 2 ELSE 0)
    + (IF _check_cooldown(combo) THEN 2 ELSE 0)
    + (IF now - LastUse(combo.name) > 10 THEN 1 ELSE 0)

RECURSIVE BestFrom_last(_, _, _, _)
BestFrom_last(i, best_combo, best_score, criteria) ==
    IF i > Len(combos) THEN best_combo
    ELSE IF ~_check_combo_conditions(combos[i])
         THEN BestFrom_last(i + 1, best_combo, best_score, criteria)
    ELSE LET score == _calculate_combo_score(combos[i], criteria)
         IN IF score >= best_score
            THEN BestFrom_last(i + 1, combos[i].name, score, criteria)
            ELSE BestFrom_last(i + 1, best_combo, best_score, criteria)

RECURSIVE BestFrom(_, _, _, _)
BestFrom(i, best_combo, best_score, criteria) ==
    IF i > Len(combos) THEN best_combo
    ELSE IF ~_check_combo_conditions(combos[i])
         THEN BestFrom(i + 1, best_combo, best_score, criteria)
    ELSE LET score == _calculate_combo_score(combos[i], criteria)
         IN IF score > best_score
            THEN BestFrom(i + 1, combos[i].name, score, criteria)
            ELSE BestFrom(i + 1, best_combo, best_score, criteria)

get_combo(criteria) == BestFrom(1, "none", -1, criteria)

RangeTypes == {"close", "mid", "long", "escape", "none"}
Criteria == [range_type : RangeTypes]

(* combo_history.append(...); pop(0) beyond max_history. *)
Recorded(history, name, time) ==
    LET h == Append(history, [name |-> name, time |-> time])
    IN IF Len(h) > max_history THEN Tail(h) ELSE h

KeysOf(seq) == {seq[i] : i \in 1..Len(seq)}

ComboKeys(combo) ==
    UNION {KeysOf(combo.actions[i].keys) : i \in 1..Len(combo.actions)}

mod_keys == {"shift", "ctrl", "alt"}

(* The keys release_all_keys calls release_key on, lines 262-270. *)
ReleasedKeys_modifiers(current) == mod_keys

ReleasedKeys(current) ==
    IF current # None /\ current[1] \in ComboNames
    THEN mod_keys \cup ComboKeys(ComboNamed(current[1]))
    ELSE mod_keys

release_all_keys_toggle(down) ==
    (down \ ReleasedKeys(current_combo)) \cup (ReleasedKeys(current_combo) \ down)

release_all_keys(down) == down \ ReleasedKeys(current_combo)

(* The key events of one step: one event per key, in the order given. *)
Events(step, keys, kind) ==
    [k \in 1..Len(keys) |-> [step |-> step, key |-> keys[k], kind |-> kind]]

Reverse(seq) == [k \in 1..Len(seq) |-> seq[Len(seq) + 1 - k]]

CallRecord(name, accepted) ==
    [name |-> name, accepted |-> accepted, successful |-> successful_skills,
     total |-> total_skills, flip |-> ~call.flip]

_consume_mp_free(mp, combo) == mp

_consume_mp(mp, combo) == mp - combo.mp_cost

(* execute_combo is a coroutine: its frame carries the combo it fetched at *)
(* line 123 (arg.combo), the index of the action it is at (arg.i) and,     *)
(* while it sleeps, which sleep it is in (arg.phase) and when that ends.   *)
ComboFrame(combo, i, pc, phase, wake) ==
    [op |-> "execute_combo", pc |-> pc,
     arg |-> [combo |-> combo, i |-> i, phase |-> phase, wake |-> wake]]

(* The for loop of line 139 moves on, or is over. *)
Advance(combo, i) ==
    IF i < Len(combo.actions)
    THEN ComboFrame(combo, i + 1, "step", "none", 0)
    ELSE ComboFrame(combo, i, "finish", "none", 0)

(* Lines 161-162. *)
AnimOrNext(combo, i) ==
    IF combo.actions[i].animation_time > 0
    THEN ComboFrame(combo, i, "sleep", "anim", now + combo.actions[i].animation_time)
    ELSE Advance(combo, i)

(* Lines 119-136, and the finally of line 186 on the early returns. *)
StartCombo(t, combo_name, limit, below) ==
    /\ call' = CallRecord(combo_name,
                          /\ combo_name \in ComboNames
                          /\ _check_combo_conditions(ComboNamed(combo_name)))
    /\ emitted' = <<>>
    /\ IF combo_name \notin ComboNames
          \/ ~_check_combo_conditions(ComboNamed(combo_name))
       THEN /\ result' = "false"
            /\ current_combo' = None
            /\ stack' = [stack EXCEPT ![t] = Resumed(below)]
            /\ cur' = IF below = <<>> THEN NoTask ELSE t
            /\ UNCHANGED <<last_combo_time, combo_history, exec_log>>
       ELSE LET combo == ComboNamed(combo_name)
                f == IF combo.actions = <<>>
                     THEN ComboFrame(combo, 0, "finish", "none", 0)
                     ELSE ComboFrame(combo, 1, "step", "none", 0)
            IN /\ Len(exec_log) < limit
               /\ current_combo' = <<combo_name>>
               /\ last_combo_time' = now
               /\ combo_history' = Recorded(combo_history, combo_name, now)
               /\ exec_log' = Append(exec_log, [name |-> combo_name, time |-> now])
               /\ result' = "none"
               /\ stack' = [stack EXCEPT ![t] = Append(below, f)]
               /\ cur' = t

execute_combo_call(t, names, limit) ==
    /\ cur = NoTask
    /\ Idle(t)
    /\ \E combo_name \in names : StartCombo(t, combo_name, limit, <<>>)
    /\ UNCHANGED <<combos, successful_skills, total_skills, held, released>>
    /\ UNCHANGED <<gsVars, lock, now, raised, mcVars, cdVars, csVars>>
    /\ UNCHANGED rmVars

(* One pass of the loop body, lines 142-162, up to its first sleep. *)
execute_combo_step(t) ==
    /\ MayRun(t)
    /\ At(t, "execute_combo", "step")
    /\ LET combo == Top(t).arg.combo
           i == Top(t).arg.i
           action == combo.actions[i]
       IN IF ~_check_action_conditions
          THEN /\ held' = release_all_keys(held)
               /\ released' = ReleasedKeys(current_combo)
               /\ result' = "false"
               /\ current_combo' = None
               /\ stack' = [stack EXCEPT ![t] = Returned(stack[t])]
               /\ emitted' = emitted
          ELSE /\ UNCHANGED <<result, current_combo, released>>
               /\ emitted' = emitted \o
                      Events(i, action.keys,
                             IF action.action_type = "hold" THEN "down"
                             ELSE IF action.action_type = "release" THEN "up"
                             ELSE "press")
               /\ IF action.action_type = "hold"
                  THEN /\ held' = held \cup KeysOf(action.keys)
                       /\ stack' = [stack EXCEPT ![t] =
                              SetTopOf(stack[t], ComboFrame(combo, i, "sleep", "hold",
                                                            now + action.duration))]
                  ELSE /\ held' = IF action.action_type = "release"
                                  THEN held \ KeysOf(action.keys)
                                  ELSE held
                       /\ stack' = [stack EXCEPT ![t] =
                              SetTopOf(stack[t], AnimOrNext(combo, i))]
    /\ cur' = NextCur(t, stack'[t], lock)
    /\ UNCHANGED <<combos, last_combo_time, successful_skills, total_skills,
                   combo_history, exec_log, call>>
    /\ UNCHANGED <<gsVars, lock, now, raised, mcVars, cdVars, csVars>>
    /\ UNCHANGED rmVars

(* asyncio.sleep is over: lines 154-155 after a hold, then lines 161-162. *)
execute_combo_wake(t) ==
    /\ cur = NoTask
    /\ At(t, "execute_combo", "sleep")
    /\ now >= Top(t).arg.wake
    /\ LET combo == Top(t).arg.combo
           i == Top(t).arg.i
       IN IF Top(t).arg.phase = "hold"
          THEN /\ held' = held \ KeysOf(combo.actions[i].keys)
               /\ emitted' = emitted \o
                      Events(i, Reverse(combo.actions[i].keys), "up")
               /\ stack' = [stack EXCEPT ![t] =
                      SetTopOf(stack[t], AnimOrNext(combo, i))]
          ELSE /\ held' = held
               /\ emitted' = emitted
               /\ stack' = [stack EXCEPT ![t] =
                      SetTopOf(stack[t], Advance(combo, i))]
    /\ cur' = NextCur(t, stack'[t], lock)
    /\ UNCHANGED <<combos, current_combo, last_combo_time, successful_skills,
                   total_skills, combo_history, result, exec_log, released, call>>
    /\ UNCHANGED <<gsVars, lock, now, raised, mcVars, cdVars, csVars>>
    /\ UNCHANGED rmVars

(* Lines 170-174: the counters, then _start_cooldown calls               *)
(* GameState.start_skill_cooldown(combo.name, combo.cooldown).            *)
execute_combo_finish(t) ==
    /\ MayRun(t)
    /\ At(t, "execute_combo", "finish")
    /\ LET combo == Top(t).arg.combo
           st == Append(SetTopOf(stack[t], [Top(t) EXCEPT !.pc = "await"]),
                        Frame("start_skill_cooldown",
                              [skill_id |-> combo.name, duration |-> combo.cooldown]))
       IN /\ successful_skills' = successful_skills + 1
          /\ total_skills' = total_skills + 1
          /\ stack' = [stack EXCEPT ![t] = st]
          /\ cur' = NextCur(t, st, lock)
    /\ UNCHANGED <<combos, current_combo, last_combo_time, combo_history,
                   held, result, cmHistory>>
    /\ UNCHANGED <<gsVars, lock, now, raised, mcVars, cdVars, csVars>>
    /\ UNCHANGED rmVars

(* Lines 177-186: _consume_mp, return True, finally. *)
execute_combo_consume(t) ==
    /\ MayRun(t)
    /\ At(t, "execute_combo", "consume_mp")
    /\ stats' = [stats EXCEPT !.mp = _consume_mp(stats.mp, Top(t).arg.combo)]
    /\ result' = "true"
    /\ current_combo' = None
    /\ stack' = [stack EXCEPT ![t] = Returned(stack[t])]
    /\ cur' = NextCur(t, stack'[t], lock)
    /\ UNCHANGED <<character_state, combat_state, position, last_update,
                   skill_cooldowns, active_buffs, detected_mobs, targeted_mob,
                   nearby_players>>
    /\ UNCHANGED <<combos, last_combo_time, successful_skills, total_skills,
                   combo_history, held, cmHistory>>
    /\ UNCHANGED <<lock, now, raised, mcVars, cdVars, csVars>>
    /\ UNCHANGED rmVars

(* release_all_keys called on its own, as CombatSystem._exit_combat does   *)
(* (combat_system.py line 223).                                            *)
release_all_keys_call(t) ==
    /\ cur = NoTask
    /\ Idle(t)
    /\ held' = release_all_keys(held)
    /\ released' = ReleasedKeys(current_combo)
    /\ UNCHANGED <<combos, current_combo, last_combo_time, successful_skills,
                   total_skills, combo_history, result, exec_log, emitted, call>>
    /\ UNCHANGED <<gsVars, lock, now, stack, cur, raised, mcVars, cdVars, csVars>>
    /\ UNCHANGED rmVars

(* ------------- SpecCombo: combos against changing resources ------------ *)
ComboRequests == {"A", "B", "X", "E", "Z"}

ComboStatsCalls ==
    {Frame("update_stats", d) : d \in {[mp |-> 10], [mp |-> mp_max], [hp |-> 0]}}

ComboStatsCall(t) == CallOf(t, ComboStatsCalls)

ComboTick == TickTo(StartTime + ComboTicks)

execute_combo(t) ==
    \/ execute_combo_step(t)
    \/ execute_combo_wake(t)
    \/ execute_combo_finish(t)
    \/ execute_combo_consume(t)

ComboNext ==
    \/ load_class_combos("loop")
    \/ execute_combo_call("loop", ComboRequests, MaxRuns)
    \/ execute_combo("loop")
    \/ start_skill_cooldown("loop")
    \/ Exit("loop")
    \/ release_all_keys_call("ext1")
    \/ ComboStatsCall("ext1")
    \/ update_stats("ext1")
    \/ Exit("ext1")
    \/ ComboTick

SpecCombo == Init /\ [][ComboNext]_vars

(* ------- SpecHistory: many executions inside one cooldown window ------- *)
HistoryRequests == {"A", "B"}

HistoryNext ==
    \/ load_class_combos("loop")
    \/ execute_combo_call("loop", HistoryRequests, HistoryRuns)
    \/ execute_combo("loop")
    \/ start_skill_cooldown("loop")
    \/ Exit("loop")
    \/ Tick

SpecHistory == Init /\ [][HistoryNext]_vars

(* --------------------------- CombatSystem ----------------------------- *)
(* in_combat, current_target, last_pvp_check and metrics are the fields of *)
(* CombatSystem; mc_current_target is MobController.current_target.  trace *)
(* is a history variable: what the current or last update() did, in order. *)
(* update() is a coroutine: its frame waits ("await") for                  *)
(* update_combat_state or execute_combo and then goes on ("resume",        *)
(* "escape"); arg.phase says which part of update() it is in.              *)
pvp_enabled == FALSE

(* _should_enter_combat, lines 93-99. *)
_should_enter_combat_any_state ==
    ~(Len(tracked_mobs) < min_mob_count)

_should_enter_combat ==
    /\ ~(Len(tracked_mobs) < min_mob_count)
    /\ character_state \notin {"stunned", "knockdown", "dead"}

(* _check_resources, lines 103-107, with the floors 0.3 and 0.2. *)
_check_resources ==
    /\ 10 * stats.hp > 3 * hp_max
    /\ 10 * stats.mp > 2 * mp_max

(* _check_pvp_threat, lines 126-131. *)
PvpCheckRuns_always == TRUE

PvpCheckRuns == ~(now - last_pvp_check < 1)

_check_pvp_threat == PvpCheckRuns /\ Len(nearby_players) > 0 /\ ~pvp_enabled

(* _is_target_valid, lines 156-169, and its side effect on metrics.kills. *)
_is_target_valid(target) ==
    /\ target # None
    /\ ~(distance_to(position, target[1].position) > max_chase_distance)
    /\ ~(target[1].health <= 0)

KillsAfterCheck(target, kills) ==
    IF /\ target # None
       /\ ~(distance_to(position, target[1].position) > max_chase_distance)
       /\ target[1].health <= 0
    THEN kills + 1 ELSE kills

(* get_mob_group_positions, lines 225-255: the groups (their members)     *)
(* that reach min_group_size; each mob seeds a group from the mobs not yet *)
(* processed that are closer than 15 to it.                                *)
RECURSIVE GroupsFrom(_, _, _)
GroupsFrom(i, processed, groups) ==
    IF i > Len(tracked_mobs) THEN groups
    ELSE IF i \in processed THEN GroupsFrom(i + 1, processed, groups)
    ELSE LET members == {i} \cup
                 {j \in 1..Len(tracked_mobs) :
                     /\ j \notin processed \cup {i}
                     /\ distance_to(tracked_mobs[i].position,
                                    tracked_mobs[j].position) < group_distance}
         IN GroupsFrom(i + 1, processed \cup members,
                       IF Cardinality(members) >= min_group_size
                       THEN Append(groups, members) ELSE groups)

get_mob_group_positions == GroupsFrom(1, {}, <<>>)

(* _calculate_group_score, lines 197-204: the number of other mobs closer  *)
(* than 15, capped at min_group_size.                                      *)
_calculate_group_score(center_mob) ==
    LET nearby_count ==
            Cardinality({j \in 1..Len(tracked_mobs) :
                /\ tracked_mobs[j].mob_id # center_mob.mob_id
                /\ distance_to(center_mob.position, tracked_mobs[j].position)
                     < group_distance})
    IN IF nearby_count > min_group_size THEN min_group_size ELSE nearby_count

(* The score of lines 169-184, times 15000: 0.4 * (1 - distance / 50),     *)
(* 0.3 * group score, 0.2 * threat (in thousandths), 0.1 for an elite.     *)
TargetScore_fresh(mob) ==
    (6000 - 120 * mob.distance)
    + 1500 * _calculate_group_score(mob)
    + 3 * mob.threat_level
    + (IF mob.is_elite THEN 1500 ELSE 0)
    - (IF mc_current_target = <<mob>> THEN 15000 ELSE 0)

TargetScore(mob) ==
    (6000 - 120 * mob.distance)
    + 1500 * _calculate_group_score(mob)
    + 3 * mob.threat_level
    + (IF mob.is_elite THEN 1500 ELSE 0)

(* max(candidates, key=score): the first of the best, lines 187-191. *)
RECURSIVE BestMobFrom_last(_, _)
BestMobFrom_last(i, best) ==
    IF i > Len(tracked_mobs) THEN best
    ELSE BestMobFrom_last(i + 1,
             IF best = 0 \/ TargetScore(tracked_mobs[i]) >= TargetScore(tracked_mobs[best])
             THEN i ELSE best)

RECURSIVE BestMobFrom(_, _)
BestMobFrom(i, best) ==
    IF i > Len(tracked_mobs) THEN best
    ELSE BestMobFrom(i + 1,
             IF best = 0 \/ TargetScore(tracked_mobs[i]) > TargetScore(tracked_mobs[best])
             THEN i ELSE best)

select_target ==
    IF tracked_mobs = <<>> THEN None
    ELSE <<tracked_mobs[BestMobFrom(1, 0)]>>

(* The range bucket of line 179. *)
RangeOf(distance) ==
    IF distance < 5 THEN "close" ELSE IF distance < 15 THEN "mid" ELSE "long"

(* _update_metrics, lines 238-244; last_combat_time is never written and   *)
(* stays 0 (line 52); skill_accuracy is kept as the pair it is the         *)
(* quotient of.                                                            *)
_update_metrics(m, engaged) ==
    [m EXCEPT !.combat_time = IF engaged THEN now - 0 ELSE @,
              !.skill_accuracy = IF total_skills > 0
                                 THEN <<successful_skills, total_skills>> ELSE @]

UpdateFrame(pc, phase) == [op |-> "update", pc |-> pc, arg |-> [phase |-> phase]]

NoComboStarted ==
    UNCHANGED <<call, emitted, result, current_combo, last_combo_time,
                combo_history, exec_log>>

(* _exit_combat up to its first await, lines 220-222: the flags are        *)
(* cleared and update_combat_state(NONE) is called.                        *)
ClearedTarget_kept(target) == target

ClearedTarget(target) == None

(* The argument of line 222: CombatState.NONE. *)
ExitCombatState_kept(state) == state

ExitCombatState(state) == "none"

ExitCombat(t, phase, events) ==
    /\ in_combat' = FALSE
    /\ current_target' = ClearedTarget(current_target)
    /\ trace' = events
    /\ LET st == <<UpdateFrame("await", phase),
                    Frame("update_combat_state", ExitCombatState(combat_state))>>
       IN /\ stack' = [stack EXCEPT ![t] = st]
          /\ cur' = NextCur(t, st, lock)

(* update(), lines 57-89, from its entry to its first await; `limit`      *)
(* bounds the number of combos run in one behaviour.  A failure inside the *)
(* try (the AttributeError of line 148, raised whenever a mob group        *)
(* exists) goes to the handler of lines 87-89, i.e. _emergency_exit.       *)
combat_update(t, limit) ==
    /\ cur = NoTask
    /\ Idle(t)
    /\ IF ~(in_combat \/ _should_enter_combat)
       THEN /\ trace' = <<"gate_closed">>
            /\ UNCHANGED <<in_combat, current_target, mc_current_target,
                           last_pvp_check, metrics, stack, cur>>
            /\ NoComboStarted
       ELSE IF ~_check_resources
       THEN /\ ExitCombat(t, "low", <<"gate_open", "low_resources", "exit_combat">>)
            /\ UNCHANGED <<mc_current_target, last_pvp_check, metrics>>
            /\ NoComboStarted
       ELSE
         /\ last_pvp_check' = IF PvpCheckRuns THEN now ELSE last_pvp_check
         /\ IF _check_pvp_threat
            THEN /\ ExitCombat(t, "emergency",
                               <<"gate_open", "pvp", "emergency", "exit_combat">>)
                 /\ UNCHANGED <<mc_current_target, metrics>>
                 /\ NoComboStarted
            ELSE
              LET valid == _is_target_valid(current_target)
                  kills == KillsAfterCheck(current_target, metrics.kills)
              IN IF ~valid /\ get_mob_group_positions # <<>>
                 THEN /\ metrics' = [metrics EXCEPT !.kills = kills]
                      /\ ExitCombat(t, "emergency",
                                    <<"gate_open", "failed", "emergency", "exit_combat">>)
                      /\ UNCHANGED mc_current_target
                      /\ NoComboStarted
                 ELSE IF ~valid /\ select_target = None
                 THEN /\ metrics' = [metrics EXCEPT !.kills = kills]
                      /\ ExitCombat(t, "plain", <<"gate_open", "no_target", "exit_combat">>)
                      /\ UNCHANGED mc_current_target
                      /\ NoComboStarted
                 ELSE
                   LET target == IF valid THEN current_target ELSE select_target
                       criteria == [range_type |->
                           RangeOf(distance_to(position, target[1].position))]
                       combo == get_combo(criteria)
                   IN /\ current_target' = target
                      /\ mc_current_target' = IF valid THEN mc_current_target ELSE target
                      /\ in_combat' = in_combat
                      /\ IF combo = "none"
                         THEN /\ metrics' = _update_metrics(
                                     [metrics EXCEPT !.kills = kills], in_combat)
                              /\ trace' = <<"gate_open", "target", "no_combo", "done">>
                              /\ UNCHANGED <<stack, cur>>
                              /\ NoComboStarted
                         ELSE /\ metrics' = [metrics EXCEPT !.kills = kills]
                              /\ trace' = <<"gate_open", "target", "execute">>
                              /\ StartCombo(t, combo, limit,
                                            <<UpdateFrame("await", "acting")>>)
    /\ UNCHANGED <<combos, successful_skills, total_skills, held, released>>
    /\ UNCHANGED <<gsVars, lock, now, raised, mcVars, cdVars>>
    /\ UNCHANGED rmVars

(* _exit_combat after update_combat_state(NONE) returned, lines 223-224:   *)
(* release_all_keys and _update_metrics.  Then, by phase: the plain exit   *)
(* returns; _emergency_exit goes on to the escape combo (line 231);        *)
(* _handle_low_resources fails at line 113 (MobController has no           *)
(* get_nearest_special_point), so update's handler runs _emergency_exit,   *)
(* which starts with _exit_combat again.                                   *)
combat_exit_tail(t) ==
    /\ MayRun(t)
    /\ At(t, "update", "resume")
    /\ Top(t).arg.phase \in {"low", "emergency", "plain"}
    /\ held' = release_all_keys(held)
    /\ released' = ReleasedKeys(current_combo)
    /\ metrics' = _update_metrics(metrics, in_combat)
    /\ LET phase == Top(t).arg.phase
           st == IF phase = "plain" THEN <<>>
                 ELSE IF phase = "emergency" THEN <<UpdateFrame("escape", "emergency")>>
                 ELSE <<UpdateFrame("await", "emergency"),
                        Frame("update_combat_state", ExitCombatState(combat_state))>>
       IN /\ stack' = [stack EXCEPT ![t] = st]
          /\ cur' = NextCur(t, st, lock)
          /\ trace' = trace \o
                (IF phase = "plain" THEN <<"released", "done">>
                 ELSE IF phase = "emergency" THEN <<"released">>
                 ELSE <<"released", "failed", "emergency", "exit_combat">>)
          /\ in_combat' = IF phase = "low" THEN FALSE ELSE in_combat
          /\ current_target' = IF phase = "low" THEN ClearedTarget(current_target)
                               ELSE current_target
    /\ UNCHANGED <<mc_current_target, last_pvp_check>>
    /\ UNCHANGED <<combos, current_combo, last_combo_time, successful_skills,
                   total_skills, combo_history, result, exec_log, emitted, call>>
    /\ UNCHANGED <<gsVars, lock, now, raised, mcVars, cdVars>>
    /\ UNCHANGED rmVars

(* _emergency_exit, lines 231-233: get_combo({"range_type": "escape"}) and, *)
(* if it names a combo, execute_combo.                                      *)
combat_escape(t, limit) ==
    /\ MayRun(t)
    /\ At(t, "update", "escape")
    /\ LET combo == get_combo([range_type |-> "escape"])
       IN IF combo = "none"
          THEN /\ trace' = trace \o <<"select_escape", "done">>
               /\ stack' = [stack EXCEPT ![t] = <<>>]
               /\ cur' = NoTask
               /\ NoComboStarted
          ELSE /\ trace' = trace \o <<"select_escape", "execute">>
               /\ StartCombo(t, combo, limit, <<UpdateFrame("await", "escaping")>>)
    /\ UNCHANGED <<in_combat, current_target, mc_current_target, last_pvp_check,
                   metrics>>
    /\ UNCHANGED <<combos, successful_skills, total_skills, held, released>>
    /\ UNCHANGED <<gsVars, lock, now, raised, mcVars, cdVars>>
    /\ UNCHANGED rmVars

(* execute_combo returned: line 84 (_update_metrics) after the combat      *)
(* actions, nothing more after the escape combo.                           *)
combat_return(t) ==
    /\ MayRun(t)
    /\ At(t, "update", "resume")
    /\ Top(t).arg.phase \in {"acting", "escaping"}
    /\ metrics' = IF Top(t).arg.phase = "acting"
                  THEN _update_metrics(metrics, in_combat) ELSE metrics
    /\ trace' = trace \o <<"done">>
    /\ stack' = [stack EXCEPT ![t] = <<>>]
    /\ cur' = NoTask
    /\ UNCHANGED <<in_combat, current_target, mc_current_target, last_pvp_check>>
    /\ UNCHANGED cmVars
    /\ UNCHANGED <<gsVars, lock, now, raised, mcVars, cdVars>>
    /\ UNCHANGED rmVars

update(t, limit) ==
    \/ combat_update(t, limit)
    \/ combat_exit_tail(t)
    \/ combat_escape(t, limit)
    \/ combat_return(t)

(* BDOBot._move_to_point, bot.py line 219: sprint is held while the bot    *)
(* follows its route, which it does when CombatState is NONE (line 144).   *)
hold_shift(t) ==
    /\ cur = NoTask
    /\ Idle(t)
    /\ combat_state = "none"
    /\ "shift" \notin held
    /\ held' = held \cup {"shift"}
    /\ UNCHANGED <<combos, current_combo, last_combo_time, successful_skills,
                   total_skills, combo_history, result, cmHistory>>
    /\ UNCHANGED <<gsVars, lock, now, stack, cur, raised, mcVars, cdVars, csVars>>
    /\ UNCHANGED rmVars

(* ------------- SpecCombat: orchestrator ticks in a world -------------- *)
(* The control loop perceives, moves and runs update(); the world (ext1)   *)
(* changes the resources and the nearby players at any time.  BDOBot runs  *)
(* one task (bot.py lines 90-113) and nothing in it writes a fighting      *)
(* CombatState, so that write comes from the world between two ticks.      *)
(* Two frames of three detections: with the third mob at 17 no mob has    *)
(* two others closer than 15, with it at 14 the three form a group; the    *)
(* mob is matched from one frame to the other (it moves by less than 5).   *)
Det(pos) == [pos |-> pos, elite |-> FALSE, area |-> BboxArea]

CombatDetections == {<<Det(1), Det(4), Det(17)>>, <<Det(1), Det(4), Det(14)>>}

CombatCalls ==
    {Frame("update_stats", d) : d \in {[mp |-> 10], [hp |-> 0]}}
    \cup {Frame("update_nearby_players", <<[is_hostile |-> TRUE]>>),
          Frame("update_combat_state", "attacking")}

CombatCall(t) == CallOf(t, CombatCalls)

CombatTick == TickTo(StartTime + CombatTicks)

CombatNext ==
    \/ load_class_combos("loop")
    \/ ProcessFrameOf("loop", CombatDetections, MaxId)
    \/ update_mobs("loop")
    \/ hold_shift("loop")
    \/ update("loop", CombatRuns)
    \/ execute_combo("loop")
    \/ start_skill_cooldown("loop")
    \/ update_combat_state("loop")
    \/ Exit("loop")
    \/ CombatCall("ext1")
    \/ update_stats("ext1")
    \/ update_nearby_players("ext1")
    \/ Idle("loop") /\ update_combat_state("ext1")
    \/ Exit("ext1")
    \/ CombatTick

SpecCombat == Init /\ [][CombatNext]_vars

(* --------------- SpecPvp: ticks among nearby players ------------------ *)
(* The world reports players, hostile or not, between and during ticks;    *)
(* resources stay full.                                                    *)
PvpCalls ==
    {Frame("update_nearby_players", players) :
        players \in {<<>>, <<[is_hostile |-> FALSE]>>, <<[is_hostile |-> TRUE]>>}}

PvpCall(t) == CallOf(t, PvpCalls)

PvpNext ==
    \/ load_class_combos("loop")
    \/ ProcessFrameOf("loop", CombatDetections, MaxId)
    \/ update_mobs("loop")
    \/ update("loop", CombatRuns)
    \/ execute_combo("loop")
    \/ start_skill_cooldown("loop")
    \/ update_combat_state("loop")
    \/ Exit("loop")
    \/ PvpCall("ext1")
    \/ update_nearby_players("ext1")
    \/ Exit("ext1")
    \/ CombatTick

SpecPvp == Init /\ [][PvpNext]_vars

(* ------------- SpecChase: ticks while the mobs come and go ------------ *)
(* The control loop alone: frames in which the mob at 4 is seen or not,    *)
(* a fourth mob appears at 30, or the third one closes up into a group.    *)
ChaseDetections ==
    {<<Det(1), Det(4), Det(17)>>, <<Det(1), Det(17), Det(30)>>,
     <<Det(1), Det(4), Det(14)>>}

ChaseNext ==
    \/ load_class_combos("loop")
    \/ ProcessFrameOf("loop", ChaseDetections, ChaseIds)
    \/ update_mobs("loop")
    \/ update("loop", CombatRuns)
    \/ execute_combo("loop")
    \/ start_skill_cooldown("loop")
    \/ update_combat_state("loop")
    \/ Exit("loop")
    \/ CombatTick

SpecChase == Init /\ [][ChaseNext]_vars

(* ------------- SpecTarget: select_target on tracked tables ------------ *)
(* MobController.select_target called on its own, lines 158-193, between   *)
(* tracking cycles whose frames hold up to TargetIds detections out of     *)
(* three: a small mob at 2, a small elite at 5 and a large (100 by 100)    *)
(* mob at 5.                                                               *)
select_target_call(t) ==
    /\ cur = NoTask
    /\ Idle(t)
    /\ mc_current_target' = IF tracked_mobs = <<>> THEN mc_current_target
                            ELSE select_target
    /\ selection' = <<[table |-> tracked_mobs, target |-> select_target]>>
    /\ UNCHANGED <<tracked_mobs, mob_id_counter, purged, alloc_log, cleaned>>
    /\ UNCHANGED <<in_combat, current_target, last_pvp_check, metrics, trace>>
    /\ UNCHANGED <<gsVars, lock, now, stack, cur, raised, cmVars, cdVars>>
    /\ UNCHANGED rmVars

TargetDetection ==
    {[pos |-> 2, elite |-> FALSE, area |-> BboxArea],
     [pos |-> 5, elite |-> TRUE, area |-> BboxArea],
     [pos |-> 5, elite |-> FALSE, area |-> 10000]}

TargetDetections == UNION {[1..n -> TargetDetection] : n \in 0..TargetIds}

TargetNext ==
    \/ ProcessFrameOf("loop", TargetDetections, TargetIds)
    \/ update_mobs("loop")
    \/ Exit("loop")
    \/ select_target_call("loop")

SpecTarget == Init /\ [][TargetNext]_vars

(* --------------------------- RouteManager ----------------------------- *)
(* The routes directory: what open() and lua.execute() (lines 51-55) give  *)
(* for a route name.  A route is the table the script returns; its         *)
(* waypoints are indexed from 0 as the Python code indexes them            *)
(* (waypoints[k] is waypoints[k + 1] here).                                *)
RouteLen == 4
MaxMoves == 12

stuck_distance == 1
stuck_limit == 10

LuaWaypoint(i) == [position |-> i, type |-> "grind"]

Route(n) == [waypoints |-> [i \in 1..n |-> LuaWaypoint(i)]]

RouteNames == {"loop", "short", "broken", "missing"}

RouteScript(route_name) ==
    CASE route_name = "loop" -> <<Route(RouteLen)>>
      [] route_name = "short" -> <<Route(1)>>
      [] OTHER -> None

(* _convert_lua_waypoint, lines 76-83: the optional keys default to 0. *)
_convert_lua_waypoint(lua_wp) ==
    [position |-> lua_wp.position,
     type |-> lua_wp.type,
     mob_density |-> IF "mob_density" \in DOMAIN lua_wp THEN lua_wp.mob_density ELSE 0,
     radius |-> IF "radius" \in DOMAIN lua_wp THEN lua_wp.radius ELSE 0,
     min_mob_count |-> IF "min_mob_count" \in DOMAIN lua_wp THEN lua_wp.min_mob_count ELSE 0,
     wait_time |-> IF "wait_time" \in DOMAIN lua_wp THEN lua_wp.wait_time ELSE 0]

(* load_route, lines 48-64: a missing file fails at open (line 51), a      *)
(* broken script at lua.execute (line 55); both before any assignment.     *)
(* `loaded` is what the last call returned.                                *)
load_route(route_name) ==
    /\ cur = NoTask
    /\ IF RouteScript(route_name) = None
       THEN /\ loaded' = "false"
            /\ UNCHANGED <<current_route, current_waypoint_index, alternative_route>>
       ELSE /\ current_route' = RouteScript(route_name)
            /\ current_waypoint_index' = 0
            /\ alternative_route' = None
            /\ loaded' = "true"
    /\ UNCHANGED <<last_position, stuck_counter, next_point, moved>>
    /\ UNCHANGED <<gsVars, lock, now, stack, cur, raised, mcVars, cmVars, csVars, cdVars>>

(* (self.alternative_route or self.current_route)['waypoints'] *)
Waypoints ==
    IF alternative_route # None THEN alternative_route[1].waypoints
    ELSE current_route[1].waypoints

(* get_next_waypoint, lines 87-96; next_point is what it returned          *)
(* (bot.py line 146).                                                      *)
get_next_waypoint ==
    /\ cur = NoTask
    /\ IF current_route = None
       THEN /\ next_point' = None
            /\ UNCHANGED current_waypoint_index
       ELSE LET index == IF current_waypoint_index >= Len(Waypoints) THEN 0
                         ELSE current_waypoint_index
            IN /\ current_waypoint_index' = index
               /\ next_point' = <<_convert_lua_waypoint(Waypoints[index + 1])>>
    /\ UNCHANGED <<current_route, alternative_route, last_position,
                   stuck_counter, loaded, moved>>
    /\ UNCHANGED <<gsVars, lock, now, stack, cur, raised, mcVars, cmVars, csVars, cdVars>>

(* advance_to_next_waypoint, lines 100-104.  Without a route line 101      *)
(* raises TypeError after line 100 has incremented the index.              *)
NextIndex_late(index, n) == IF index + 1 > n THEN 0 ELSE index + 1

NextIndex(index, n) == IF index + 1 >= n THEN 0 ELSE index + 1

advance_to_next_waypoint ==
    /\ cur = NoTask
    /\ current_waypoint_index <= RouteLen
    /\ current_waypoint_index' =
          IF current_route = None THEN current_waypoint_index + 1
          ELSE NextIndex(current_waypoint_index, Len(Waypoints))
    /\ UNCHANGED <<current_route, alternative_route, last_position,
                   stuck_counter, next_point, loaded, moved>>
    /\ UNCHANGED <<gsVars, lock, now, stack, cur, raised, mcVars, cmVars, csVars, cdVars>>

(* RouteManager.update_position, lines 203-212.  A Position is always      *)
(* truthy, so only the first update after construction or cleanup skips    *)
(* the comparison.  moved is a history variable: the distances of the      *)
(* compared updates since the counter was last zeroed from outside         *)
(* (reset_stuck_counter, cleanup).                                         *)
RoutePos == {0, 1}

StillCount_inclusive(counter, distance) ==
    IF distance <= stuck_distance THEN counter + 1 ELSE 0

StillCount(counter, distance) ==
    IF distance < stuck_distance THEN counter + 1 ELSE 0

rm_update_position ==
    /\ cur = NoTask
    /\ Len(moved) < MaxMoves
    /\ \E current_position \in RoutePos :
          /\ IF last_position # None
             THEN LET distance == distance_to(current_position, last_position[1])
                  IN /\ stuck_counter' = StillCount(stuck_counter, distance)
                     /\ moved' = Append(moved, distance)
             ELSE UNCHANGED <<stuck_counter, moved>>
          /\ last_position' = <<current_position>>
    /\ UNCHANGED <<current_route, current_waypoint_index, alternative_route,
                   next_point, loaded>>
    /\ UNCHANGED <<gsVars, lock, now, stack, cur, raised, mcVars, cmVars, csVars, cdVars>>

(* is_stuck, line 216. *)
is_stuck == stuck_counter > stuck_limit

(* reset_stuck_counter, line 220. *)
reset_stuck_counter ==
    /\ cur = NoTask
    /\ stuck_counter' = 0
    /\ moved' = <<>>
    /\ UNCHANGED <<current_route, current_waypoint_index, alternative_route,
                   last_position, next_point, loaded>>
    /\ UNCHANGED <<gsVars, lock, now, stack, cur, raised, mcVars, cmVars, csVars, cdVars>>

(* RouteManager.cleanup, lines 224-228. *)
rm_cleanup ==
    /\ cur = NoTask
    /\ current_route' = None
    /\ alternative_route' = None
    /\ last_position' = None
    /\ stuck_counter' = 0
    /\ moved' = <<>>
    /\ UNCHANGED <<current_waypoint_index, next_point, loaded>>
    /\ UNCHANGED <<gsVars, lock, now, stack, cur, raised, mcVars, cmVars, csVars, cdVars>>

(* ------------------ SpecRoute: the waypoint cycle --------------------- *)
RouteNext ==
    \/ \E route_name \in RouteNames : load_route(route_name)
    \/ get_next_waypoint
    \/ advance_to_next_waypoint
    \/ rm_cleanup

SpecRoute == Init /\ [][RouteNext]_vars

(* ------------------ SpecStuck: the stuck counter ---------------------- *)
StuckNext ==
    \/ rm_update_position
    \/ reset_stuck_counter
    \/ rm_cleanup

SpecStuck == Init /\ [][StuckNext]_vars

(* ------------- SpecLoad: loading classes and routes ------------------- *)
(* BDOBot.load_class (bot.py 73-80) runs load_class_combos on the script   *)
(* of the class and re-raises what it raises.  A class script may be       *)
(* missing (open fails, line 57) or hold a combo without the fields that   *)
(* lines 80-82 read: the conversion of that combo raises after the combos  *)
(* before it were stored by line 88.                                       *)
MalformedTable ==
    << Combo("B", << ComboAction(<<"g">>, "press", 0, 0) >>, 1, 0, "mid", TRUE),
       [name |-> "Z", actions |-> <<>>] >>

ClassNames == {"warrior", "sorceress", "missing"}

ClassScript(class_name) ==
    CASE class_name = "warrior" -> <<ClassTable>>
      [] class_name = "sorceress" -> <<MalformedTable>>
      [] OTHER -> None

WellFormed(combo_data) ==
    {"cooldown", "mp_cost", "range_type", "check"} \subseteq DOMAIN combo_data

(* The combos of the table that come before the first one that cannot be   *)
(* converted.                                                              *)
RECURSIVE ConvertedFrom(_, _)
ConvertedFrom(table, i) ==
    IF i > Len(table) \/ ~WellFormed(table[i]) THEN <<>>
    ELSE <<table[i]>> \o ConvertedFrom(table, i + 1)

LoadFails(class_name) ==
    \/ ClassScript(class_name) = None
    \/ ConvertedFrom(ClassScript(class_name)[1], 1) # ClassScript(class_name)[1]

load_class(t, class_name) ==
    /\ cur = NoTask
    /\ Idle(t)
    /\ combos' = IF ClassScript(class_name) = None THEN combos
                 ELSE LoadFrom(ConvertedFrom(ClassScript(class_name)[1], 1), 1, combos)
    /\ raised' = [raised EXCEPT ![t] = LoadFails(class_name)]
    /\ UNCHANGED <<current_combo, last_combo_time, successful_skills,
                   total_skills, combo_history, held, result, cmHistory>>
    /\ UNCHANGED <<gsVars, lock, now, stack, cur, mcVars, cdVars, csVars>>
    /\ UNCHANGED rmVars

LoadNext ==
    \/ \E class_name \in ClassNames : load_class("loop", class_name)
    \/ \E route_name \in RouteNames : load_route(route_name)
    \/ advance_to_next_waypoint

SpecLoad == Init /\ [][LoadNext]_vars

(* ------------- SpecEngage: the driving loop keeps ticking ------------- *)
(* An iteration of the loop runs a perception cycle and a tick of          *)
(* CombatSystem.update (bot.py 124 and 143); nothing else touches the      *)
(* state.  Whatever an iteration has started is carried through: an        *)
(* awaited call runs, a sleep ends when its time has come.                 *)
EngageNext ==
    \/ load_class_combos("loop")
    \/ ProcessFrameOf("loop", CombatDetections, MaxId)
    \/ update_mobs("loop")
    \/ update("loop", CombatRuns)
    \/ execute_combo("loop")
    \/ start_skill_cooldown("loop")
    \/ update_combat_state("loop")
    \/ Exit("loop")
    \/ CombatTick

SpecEngage ==
    /\ Init
    /\ [][EngageNext]_vars
    /\ WF_vars(update_mobs("loop"))
    /\ WF_vars(execute_combo("loop"))
    /\ WF_vars(start_skill_cooldown("loop"))
    /\ WF_vars(update_combat_state("loop"))
    /\ WF_vars(Exit("loop"))
    /\ WF_vars(CombatTick)

(* ------------------------------ claims -------------------------------- *)

(* C1: no two mutating GameState operations are inside their               *)
(* lock-protected critical section at the same time, whatever the          *)
(* interleaving of the callers.                                            *)
C1_MutualExclusion == Cardinality(CSFrames) <= 1

(* C1 witness: one caller is inside a critical section while another       *)
(* caller waits for the lock.                                              *)
C1_Contention ==
    \E t \in Tasks, u \in Tasks :
        /\ t # u
        /\ \E i \in 1..Len(stack[t]) : InCS(stack[t][i])
        /\ ~Idle(u) /\ Top(u).pc = "acquire" /\ Top(u).op \in MutatingOps

(* C2: an update_mobs call that finds the target absent from the list      *)
(* completes with targeted_mob cleared, and with CombatState None if it    *)
(* was Attacking: at its return point the state is as claimed, and while   *)
(* it waits for update_combat_state that call can proceed.                 *)
C2_TargetAbsentCompletes ==
    \A t \in Tasks : \A i \in 1..Len(stack[t]) :
        LET f == stack[t][i]
        IN (f.op = "update_mobs" /\ f.pc # "acquire" /\ f.arg.cleared) =>
              /\ f.pc = "exit" => targeted_mob = None
              /\ (f.pc = "exit" /\ f.arg.was_attacking) => combat_state = "none"
              /\ f.pc = "await" => ENABLED update_combat_state(t)

(* C3: CombatState = Attacking implies CharacterState = Combat.            *)
C3_AttackingImpliesCombat ==
    combat_state = "attacking" => character_state = "combat"

(* C4: a step that takes CharacterState out of Combat leaves CombatState   *)
(* None.                                                                   *)
C4_LeavesCombatOnlyWhenNone ==
    [][(character_state = "combat" /\ character_state' # "combat")
          => combat_state' = "none"]_vars

(* C6: in every state another reader can observe (no coroutine is between  *)
(* two suspension points), every id of the projection detected_mobs is a   *)
(* key of tracked_mobs.                                                    *)
C6_ProjectionIsTracked ==
    cur = NoTask => MobIds(detected_mobs) \subseteq TrackedIds

(* C7: the projection left by a completed perception cycle contains no id  *)
(* of an entity dropped from tracking before.                              *)
C7_NoPurgedIdInProjection ==
    \A t \in Tasks :
        At(t, "process_frame", "exit") => MobIds(detected_mobs) \cap purged = {}

(* C7 witness: a cycle completes with a non-empty projection after some    *)
(* entity was dropped.                                                     *)
C7_CycleAfterPurge ==
    /\ At("loop", "process_frame", "exit")
    /\ purged # {}
    /\ detected_mobs # <<>>

(* C8: ids are handed out in strictly increasing order and never reused:   *)
(* every id ever tracked or purged was handed out exactly once, and each   *)
(* id handed out is greater than all ids handed out before it.             *)
C8_IdsStrictlyIncreasing ==
    /\ \A i \in 1..Len(alloc_log) : \A j \in 1..Len(alloc_log) :
           i < j => alloc_log[i] < alloc_log[j]
    /\ TrackedIds \cup purged \subseteq {alloc_log[i] : i \in 1..Len(alloc_log)}
    /\ \A i \in 1..Len(tracked_mobs) : \A j \in 1..Len(tracked_mobs) :
           i # j => tracked_mobs[i].mob_id # tracked_mobs[j].mob_id

(* C8 witness: an entity spawned after a cleanup, and after an earlier     *)
(* entity was purged, has an id above every purged id.                     *)
C8_SpawnAfterCleanup ==
    /\ purged # {}
    /\ tracked_mobs # <<>>
    /\ cleaned
    /\ \A id \in TrackedIds : \A p \in purged : id > p

(* C9 as stated: can_use_skill(id) is true iff start_skill_cooldown was     *)
(* never called for id, or the time elapsed since its most recent call     *)
(* exceeds the duration d given to it.                                     *)
C9_UsableIffElapsedExceeds ==
    \A id \in SkillIds :
        can_use_skill(id) <=>
            \/ id \notin DOMAIN cd_started
            \/ now - cd_started[id].at > cd_started[id].duration

(* C9 amended: can_use_skill(id) is true iff no cooldown was started for   *)
(* id since construction or the last GameState.cleanup, or the time        *)
(* elapsed since the most recent start is at least d; maintenance sweeps   *)
(* in between change nothing.                                              *)
C9_UsableIffElapsedAtLeast ==
    \A id \in SkillIds :
        can_use_skill(id) <=>
            \/ id \notin DOMAIN cd_started
            \/ cd_started[id].wiped
            \/ now - cd_started[id].at >= cd_started[id].duration

(* C9 witness: a cooldown of positive duration has run out and a sweep has *)
(* removed its entry, while another skill is still cooling down.           *)
C9_SweptAfterExpiry ==
    \E id \in DOMAIN cd_started, other \in DOMAIN skill_cooldowns :
        /\ cd_started[id].duration > 0
        /\ ~cd_started[id].wiped
        /\ now - cd_started[id].at >= cd_started[id].duration
        /\ id \notin DOMAIN skill_cooldowns
        /\ ~can_use_skill(other)

(* C5 as stated: the mana value is never negative; a debit larger than the *)
(* remaining mana leaves it at 0.                                          *)
C5_MpNeverNegative == stats.mp >= 0

(* C10 as stated: a combo with cooldown c whose execution started at t0 is *)
(* rejected by selection and by execution at every time t with t - t0 < c, *)
(* and accepted once t - t0 >= c, other conditions permitting.             *)
C10_CooldownRejects ==
    \A k \in 1..Len(combos) :
        LET combo == combos[k]
            t0 == LastUseFrom(exec_log, Len(exec_log), combo.name)
        IN IF now - t0 < combo.cooldown
           THEN /\ ~_check_combo_conditions(combo)
                /\ \A criteria \in Criteria : get_combo(criteria) # combo.name
           ELSE (~(stats.mp < combo.mp_cost) /\ combo.check)
                    => _check_combo_conditions(combo)

(* The cancellation condition of the claims, spelled out. *)
Cancelled ==
    \/ character_state \in {"stunned", "knockdown", "dead"}
    \/ stats.hp <= 0

(* The key events a combo sends when no step is cancelled, up to and       *)
(* including step n: press and release steps send one event per key, a     *)
(* hold step sends its key-downs and then its key-ups in reverse order.    *)
RECURSIVE ExpectedUpTo(_, _)
ExpectedUpTo(combo, n) ==
    IF n = 0 THEN <<>>
    ELSE LET action == combo.actions[n]
         IN ExpectedUpTo(combo, n - 1) \o
            (IF action.action_type = "hold"
             THEN Events(n, action.keys, "down") \o Events(n, Reverse(action.keys), "up")
             ELSE IF action.action_type = "release"
             THEN Events(n, action.keys, "up")
             ELSE Events(n, action.keys, "press"))

IsPrefix(a, b) == Len(a) <= Len(b) /\ SubSeq(b, 1, Len(a)) = a

(* execute_combo has returned False after getting past its re-validation. *)
AbortedReturn == Idle("loop") /\ result = "false" /\ call.accepted

(* C11: when execute_combo aborts a sequence at a cancellation check, no   *)
(* key is held when it returns, and the keys release_all_keys released are *)
(* the modifiers plus every key the aborted sequence refers to.            *)
C11_AbortReleasesInputs ==
    [][(At("loop", "execute_combo", "step") /\ result' = "false")
         => /\ held' = {}
            /\ released' = mod_keys \cup ComboKeys(Top("loop").arg.combo)]_vars

(* C11 witness: a sequence was aborted after it had sent key events, and   *)
(* its keys were released by the abort.                                    *)
C11_AbortedAfterHold ==
    /\ AbortedReturn
    /\ emitted # <<>>
    /\ held = {}
    /\ {"shift", "q", "e"} \subseteq released

(* C12: steps are emitted in list order; a cancellation condition that     *)
(* holds at a step boundary stops the sequence there with failure and no   *)
(* event of that or a later step; a condition arising during a step's      *)
(* suspension does not cut the step short, so an aborted sequence has sent *)
(* exactly the events of its first k steps, each step complete.            *)
C12_CancelOnlyAtBoundaries ==
    /\ [](call.accepted =>
            /\ IsPrefix(emitted, ExpectedUpTo(ComboNamed(call.name),
                                              Len(ComboNamed(call.name).actions)))
            /\ AbortedReturn =>
                 \E k \in 0..(Len(ComboNamed(call.name).actions) - 1) :
                     emitted = ExpectedUpTo(ComboNamed(call.name), k))
    /\ [][(At("loop", "execute_combo", "step") /\ Cancelled)
            => /\ result' = "false"
               /\ Idle("loop")'
               /\ emitted' = emitted]_vars

(* C12 witness: the character died while step 1 of A was holding its keys; *)
(* the step still released them and the sequence stopped before step 2.    *)
C12_CancelledDuringHold ==
    /\ AbortedReturn
    /\ call.name = "A"
    /\ character_state = "dead"
    /\ emitted = ExpectedUpTo(ComboNamed("A"), 1)

(* C13: when execute_combo returns True, the success and attempt counters  *)
(* are each one more than at the call, GameState holds a cooldown for the  *)
(* combo with the combo's duration, and mp has been debited by its cost.   *)
C13_CompletionEffects ==
    [][(At("loop", "execute_combo", "consume_mp") /\ result' = "true")
         => LET combo == Top("loop").arg.combo
            IN /\ successful_skills' = call.successful + 1
               /\ total_skills' = call.total + 1
               /\ combo.name \in DOMAIN skill_cooldowns'
               /\ skill_cooldowns'[combo.name].total_cooldown = combo.cooldown
               /\ skill_cooldowns'[combo.name].remaining_time = now + combo.cooldown
               /\ stats'.mp = stats.mp - combo.mp_cost]_vars

(* C13 witness: A has completed and its cost of 30 is gone from the mana. *)
C13_CompletedA ==
    /\ Idle("loop")
    /\ result = "true"
    /\ call.name = "A"
    /\ stats.mp = mp_max - 30
    /\ successful_skills = 1

(* C14 as stated: whenever execute_combo returns False, total_skills is    *)
(* one more than at the call, and successful_skills, the cooldowns and mp  *)
(* are untouched.                                                          *)
C14_FailureCountsAttempt ==
    [][(result' = "false" /\ (result # "false" \/ call' # call))
         => /\ total_skills' = call'.total + 1
            /\ successful_skills' = call'.successful
            /\ skill_cooldowns' = skill_cooldowns
            /\ stats' = stats]_vars

(* C15: execute_combo re-checks cooldown, mp cost and the condition at     *)
(* call time; when one of them fails then, or the name is not loaded, it   *)
(* returns False without a key event and without touching the held keys.   *)
C15_RevalidatesAtCall ==
    [][(call' # call)
         => LET n == call'.name
            IN (\/ n \notin ComboNames
                \/ now - LastUse(n) < ComboNamed(n).cooldown
                \/ stats.mp < ComboNamed(n).mp_cost
                \/ ~ComboNamed(n).check)
               => /\ result' = "false"
                  /\ emitted' = <<>>
                  /\ held' = held
                  /\ Idle("loop")']_vars

(* C15 witness: a call for A was turned down for lack of mana although A   *)
(* is loaded, off cooldown and its condition holds.                        *)
C15_RejectedForMana ==
    /\ call.name = "A"
    /\ ~call.accepted
    /\ result = "false"
    /\ "A" \in ComboNames
    /\ _check_cooldown(ComboNamed("A"))
    /\ stats.mp < ComboNamed("A").mp_cost

(* The score of the claim, doubled: +2.0 range-type match, +1.0 cost at    *)
(* most 30% of the current mp, +1.0 off cooldown, +0.5 not used in the     *)
(* last 10 s.                                                              *)
C16_Score(combo, criteria) ==
    (IF combo.range_type = criteria.range_type THEN 4 ELSE 0)
    + (IF 10 * combo.mp_cost <= 3 * stats.mp THEN 2 ELSE 0)
    + (IF now - LastUse(combo.name) >= combo.cooldown THEN 2 ELSE 0)
    + (IF \A k \in 1..Len(combo_history) :
             combo_history[k].name = combo.name => now - combo_history[k].time > 10
       THEN 1 ELSE 0)

C16_Passing ==
    {i \in 1..Len(combos) :
        /\ now - LastUse(combos[i].name) >= combos[i].cooldown
        /\ stats.mp >= combos[i].mp_cost
        /\ combos[i].check}

(* C16: get_combo returns None iff no loaded combo passes the cooldown, mp *)
(* and condition checks; otherwise it returns a passing combo of maximal   *)
(* score, the first in load order among those of maximal score.            *)
C16_SelectsFirstBest ==
    \A criteria \in Criteria :
        LET r == get_combo(criteria)
        IN /\ (r = "none") <=> (C16_Passing = {})
           /\ r # "none" =>
                \E i \in C16_Passing :
                    /\ combos[i].name = r
                    /\ \A j \in C16_Passing :
                         /\ C16_Score(combos[j], criteria) <= C16_Score(combos[i], criteria)
                         /\ C16_Score(combos[j], criteria) = C16_Score(combos[i], criteria)
                              => i <= j

(* C16 witness: several loaded combos pass with the same maximal score and *)
(* one has been executed before, so load order decides.                    *)
C16_TieAmongPassing ==
    /\ exec_log # <<>>
    /\ \E i, j \in C16_Passing :
         /\ i < j
         /\ get_combo([range_type |-> "none"]) = combos[i].name
         /\ C16_Score(combos[i], [range_type |-> "none"])
              = C16_Score(combos[j], [range_type |-> "none"])

(* The keys of the sequence in flight, read off the coroutine itself. *)
InFlightKeys ==
    UNION {ComboKeys(stack["loop"][i].arg.combo) :
               i \in {k \in 1..Len(stack["loop"]) : stack["loop"][k].op = "execute_combo"}}

(* C17: release_all_keys, called in any state, releases the modifiers and  *)
(* every key of the sequence in flight and nothing else, and a second call *)
(* right after it changes nothing.                                         *)
C17_ReleaseAllIdempotent ==
    LET once == release_all_keys(held)
    IN /\ once = held \ (mod_keys \cup InFlightKeys)
       /\ release_all_keys(once) = once

(* C17 witness: release_all_keys was called while A was holding its keys   *)
(* and released them.                                                      *)
C17_ReleasedInFlight ==
    /\ At("loop", "execute_combo", "sleep")
    /\ Top("loop").arg.phase = "hold"
    /\ released = mod_keys \cup InFlightKeys
    /\ held = {}

(* C18: in an emergency exit, every effect of _exit_combat (the target is  *)
(* cleared, CombatState is NONE, no input is held) is in place when the    *)
(* escape combo is selected and still when its first input is about to be  *)
(* emitted.                                                                *)
EscapePending(t) ==
    \/ At(t, "update", "escape")
    \/ /\ Len(stack[t]) >= 2
       /\ stack[t][1] = UpdateFrame("await", "escaping")
       /\ emitted = <<>>

C18_ExitBeforeEscape ==
    \A t \in Tasks :
        EscapePending(t) =>
            /\ current_target = None
            /\ ~in_combat
            /\ combat_state = "none"
            /\ held = {}

C18_EscapeAfterEngagement ==
    /\ EscapePending("loop")
    /\ Len(stack["loop"]) >= 2
    /\ mc_current_target # None
    /\ "shift" \in released

(* C19: a failure inside update() does not leave update(): the tick goes   *)
(* through the emergency exit, and when it ends no input is held and       *)
(* in_combat is false, the target is None and CombatState is NONE, all     *)
(* together.                                                               *)
Failed(events) == \E i \in 1..Len(events) : events[i] = "failed"

EmergencyAfterFailure(events) ==
    \A i \in 1..Len(events) :
        events[i] = "failed" =>
            /\ i + 2 <= Len(events)
            /\ events[i + 1] = "emergency"
            /\ events[i + 2] = "exit_combat"
            /\ \E j \in (i + 3)..Len(events) : events[j] = "released"

TickEnds(t) ==
    /\ stack[t] # <<>>
    /\ stack[t][1].op = "update"
    /\ stack'[t] = <<>>

C19_FailureEndsInEmergencyExit ==
    [][(TickEnds("loop") /\ Failed(trace')) =>
           /\ ~raised'["loop"]
           /\ EmergencyAfterFailure(trace')
           /\ held' = {}
           /\ ~in_combat'
           /\ current_target' = None
           /\ combat_state' = "none"]_vars

C19_FailedTickEnded ==
    /\ Idle("loop")
    /\ Failed(trace)
    /\ trace[Len(trace)] = "done"
    /\ exec_log # <<>>
    /\ "shift" \in released
    /\ mc_current_target # None

(* C20: a tick that starts with in_combat false goes past the entry gate   *)
(* only if at least min_group_size entities are tracked and CharacterState *)
(* is none of stunned, knockdown, dead; otherwise it changes nothing in    *)
(* the orchestrator, in GameState or among the held inputs.                *)
GateOpen ==
    /\ Len(tracked_mobs) >= min_group_size
    /\ character_state \notin {"stunned", "knockdown", "dead"}

C20_EntryGate ==
    [][(combat_update("loop", CombatRuns) /\ ~in_combat) =>
           IF GateOpen
           THEN trace'[1] = "gate_open"
           ELSE /\ trace' = <<"gate_closed">>
                /\ UNCHANGED <<in_combat, current_target, mc_current_target,
                               last_pvp_check, metrics>>
                /\ UNCHANGED <<gsVars, held, stack, lock>>]_vars

C20_ClosedForDead ==
    /\ trace = <<"gate_closed">>
    /\ Idle("loop")
    /\ character_state = "dead"
    /\ Len(tracked_mobs) >= min_group_size
    /\ combat_state = "attacking"
    /\ "shift" \in held

(* C21: a tick that passes the entry gate with hp or mp under its floor    *)
(* disengages and, in that tick, selects no target and neither selects nor *)
(* executes a combo.                                                       *)
InTrace(event) == \E i \in 1..Len(trace) : trace[i] = event

C21_LowResourcesSkipsActions ==
    InTrace("low_resources") =>
        /\ ~InTrace("target")
        /\ ~InTrace("select_escape")
        /\ ~InTrace("execute")

(* C22: a tick takes the PvP emergency exit exactly when the PvP check     *)
(* runs in it, PvP is disabled and some nearby player is hostile; players  *)
(* that are all non-hostile never trigger it.                              *)
HostileNearby ==
    \E i \in 1..Len(nearby_players) : nearby_players[i].is_hostile

C22_PvpExitIffHostile ==
    [][(combat_update("loop", CombatRuns) /\ trace'[1] = "gate_open"
            /\ _check_resources) =>
           ((Len(trace') >= 2 /\ trace'[2] = "pvp")
               <=> (PvpCheckRuns /\ ~pvp_enabled /\ HostileNearby))]_vars

(* C23: a tick that reaches target maintenance with no valid target and    *)
(* gets no target from the selector exits combat and runs no combo in that *)
(* tick; when a target is yielded it is the current target before a combo  *)
(* is selected.                                                            *)
ReachedMaintenance ==
    /\ InTrace("gate_open")
    /\ ~InTrace("low_resources")
    /\ ~InTrace("pvp")

C23_TargetMaintenance ==
    /\ (ReachedMaintenance /\ ~InTrace("target")) =>
           /\ ~in_combat
           /\ current_target = None
           /\ ~InTrace("select_escape")
           /\ ~InTrace("execute")
    /\ (ReachedMaintenance /\ InTrace("target") /\ ~Idle("loop")) =>
           current_target # None

(* C24: the validity check of the orchestrator is false whenever the       *)
(* target's id is no longer tracked, whenever its distance exceeds the max *)
(* chase distance and whenever its health is <= 0; in the last case, and   *)
(* only then, the check adds 1 to the kill counter.                        *)
C24_ValidityCheck ==
    current_target # None =>
        /\ current_target[1].mob_id \notin TrackedIds
               => ~_is_target_valid(current_target)
        /\ distance_to(position, current_target[1].position) > max_chase_distance
               => ~_is_target_valid(current_target)
        /\ current_target[1].health <= 0 => ~_is_target_valid(current_target)
        /\ KillsAfterCheck(current_target, metrics.kills) =
               (IF current_target[1].health <= 0
                THEN metrics.kills + 1 ELSE metrics.kills)

(* C25: select_target is deterministic: on a table identical to the one it *)
(* last ran on (same entities, order, fields and timestamps) it returns    *)
(* the entity it returned then, and repeated calls without a tracking      *)
(* cycle in between keep returning it.                                     *)
C25_SelectDeterministic ==
    [][(select_target_call("loop") /\ selection # None
            /\ selection[1].table = tracked_mobs) =>
           selection'[1].target = selection[1].target]_vars

C25_SelectedAgain ==
    /\ selection # None
    /\ selection[1].table = tracked_mobs
    /\ Len(tracked_mobs) = 3
    /\ mc_current_target = selection[1].target
    /\ \E i \in 1..Len(tracked_mobs) :
          /\ <<tracked_mobs[i]>> # selection[1].target
          /\ TargetScore(tracked_mobs[i]) = TargetScore(selection[1].target[1])

(* C26: select_target returns None iff nothing is tracked; otherwise a     *)
(* tracked entity whose score 0.4 * (1 - distance / max chase distance) +  *)
(* 0.3 * min(neighbours within 15 / min group size, 1) + 0.2 * threat +    *)
(* (0.1 if elite) is maximal, and the first tracked among those.  The      *)
(* score is taken times 15000, threat in thousandths.                      *)
C26_Neighbours(i) ==
    Cardinality({j \in 1..Len(tracked_mobs) :
        /\ j # i
        /\ distance_to(tracked_mobs[i].position, tracked_mobs[j].position) < 15})

C26_Score(i) ==
    LET mob == tracked_mobs[i]
        n == C26_Neighbours(i)
    IN (6000 * (max_chase_distance - mob.distance)) \div max_chase_distance
       + (IF n >= min_group_size THEN 4500 ELSE (4500 * n) \div min_group_size)
       + 3 * mob.threat_level
       + (IF mob.is_elite THEN 1500 ELSE 0)

C27_PrefersElite ==
    (/\ Len(tracked_mobs) = 3
     /\ \A i \in 1..3 : tracked_mobs[i].distance <= 10
     /\ Cardinality({i \in 1..3 : tracked_mobs[i].is_elite}) = 1) =>
        ~\E i \in 1..3 :
            /\ tracked_mobs[i].is_elite
            /\ ~select_target[1].is_elite
            /\ select_target[1].distance = tracked_mobs[i].distance

(* C28: a tracked entity that no detection of a cycle matches stays in the *)
(* table while now - last_seen <= mob_memory_time and leaves it at the     *)
(* first cycle where its age exceeds the window: no cycle drops an entity  *)
(* whose age is within the window.                                         *)
C28_KeptWithinWindow ==
    [][process_frame("loop") =>
           \A i \in 1..Len(tracked_mobs) :
               /\ now - tracked_mobs[i].last_seen <= mob_memory_time
                      => tracked_mobs[i].mob_id \in IdsOf(tracked_mobs')
               /\ now - tracked_mobs[i].last_seen > mob_memory_time
                      => \/ tracked_mobs[i].mob_id \notin IdsOf(tracked_mobs')
                         \/ \E j \in 1..Len(tracked_mobs') :
                               /\ tracked_mobs'[j].mob_id = tracked_mobs[i].mob_id
                               /\ tracked_mobs'[j].last_seen = now]_vars

(* C29: when an update_stats call whose merged hp is <= 0 returns,         *)
(* CharacterState is dead, whatever CharacterState and CombatState were    *)
(* before the call.                                                        *)
C29_DeadWhenNoHp ==
    \A t \in Tasks :
        (At(t, "update_stats", "exit") /\ stats.hp <= 0) =>
            character_state = "dead"

C29_DiedWhileAttacking ==
    /\ At("ext1", "update_stats", "exit")
    /\ "mp" \in DOMAIN Top("ext1").arg
    /\ stats.hp <= 0
    /\ combat_state = "attacking"
    /\ character_state = "dead"

(* C30: every update_position(new_pos) call completes normally, with       *)
(* position = new_pos and the lock released, whatever the time since the   *)
(* last update (zero included) and whatever the implied speed.             *)
C30_PositionUpdateCompletes ==
    \A t \in Tasks :
        At(t, "update_position", "exit") =>
            /\ position = Top(t).arg
            /\ ~raised[t]

(* C31: the maintenance sweeps are idempotent.  A sweep at time t leaves   *)
(* no entry whose expiry is <= t in the map it sweeps, and a sweep of a    *)
(* map that holds no such entry (as it is right after a sweep at the same  *)
(* instant) leaves both maps exactly as they were.                         *)
NoExpiredCooldown(cds, current_time) ==
    \A s \in DOMAIN cds : cds[s].remaining_time > current_time

NoExpiredBuff(buffs, current_time) ==
    \A b \in DOMAIN buffs : buffs[b] > current_time

C31_SweepsIdempotent ==
    [][/\ (\E t \in Tasks : update_skill_cooldowns(t)) =>
            /\ NoExpiredCooldown(skill_cooldowns', now)
            /\ active_buffs' = active_buffs
            /\ NoExpiredCooldown(skill_cooldowns, now) =>
                   skill_cooldowns' = skill_cooldowns
       /\ (\E t \in Tasks : update_buffs(t)) =>
            /\ NoExpiredBuff(active_buffs', now)
            /\ skill_cooldowns' = skill_cooldowns
            /\ NoExpiredBuff(active_buffs, now) =>
                   active_buffs' = active_buffs]_vars

(* A cooldown sweep has just removed an entry that expired at exactly this *)
(* instant, while a buff is still running.                                *)
C31_SweptAtExpiry ==
    /\ At("ext1", "update_skill_cooldowns", "exit")
    /\ "A" \in DOMAIN cd_started
    /\ cd_started["A"].at + cd_started["A"].duration = now
    /\ "A" \notin DOMAIN skill_cooldowns
    /\ \E b \in DOMAIN active_buffs : active_buffs[b] > now

(* C32: with a route of n >= 1 waypoints loaded, the waypoint index is in  *)
(* 0..n-1, advance_to_next_waypoint takes index i to (i + 1) mod n (the    *)
(* last index wraps to 0), and get_next_waypoint returns the waypoint at   *)
(* the index: the route loops and never ends.                              *)
C32_CyclicAdvance ==
    [][current_route # None =>
         LET n == Len(Waypoints)
         IN /\ n >= 1
            /\ current_waypoint_index \in 0..(n - 1)
            /\ advance_to_next_waypoint =>
                  /\ current_waypoint_index' = (current_waypoint_index + 1) % n
                  /\ current_waypoint_index' \in 0..(n - 1)
            /\ get_next_waypoint =>
                  /\ next_point' # None
                  /\ next_point'[1].position =
                         Waypoints[current_waypoint_index + 1].position
                  /\ current_waypoint_index' = current_waypoint_index]_vars

(* The last waypoint of the 4-element route was returned and the index is  *)
(* back at 0.                                                              *)
C32_WrappedToStart ==
    /\ current_route = <<Route(RouteLen)>>
    /\ next_point = <<_convert_lua_waypoint(LuaWaypoint(RouteLen))>>
    /\ current_waypoint_index = 0
    /\ loaded = "true"

(* C33: after any sequence of RouteManager position updates the stuck      *)
(* counter is the number of most recent consecutive updates that moved     *)
(* less than 1.0 unit (so one movement of 1.0 or more puts it back to 0),  *)
(* and is_stuck() holds exactly when that number exceeds 10, the 11th      *)
(* such update in a row being the first.                                   *)
RECURSIVE C33_StillRun(_)
C33_StillRun(distances) ==
    IF distances = <<>> THEN 0
    ELSE IF distances[Len(distances)] >= stuck_distance THEN 0
    ELSE 1 + C33_StillRun(SubSeq(distances, 1, Len(distances) - 1))

C33_StuckCounter ==
    /\ stuck_counter = C33_StillRun(moved)
    /\ is_stuck <=> C33_StillRun(moved) >= 11

(* A movement of one unit, then eleven updates that did not move. *)
C33_StuckAtEleventh ==
    /\ is_stuck
    /\ Len(moved) = 12
    /\ moved[1] = 1
    /\ stuck_counter = 11

(* C34: cleanup() is complete and idempotent.  It finishes without         *)
(* raising and leaves no input held, the tracked table, the GameState      *)
(* projection, both current targets and the cooldown entries empty; run    *)
(* in a state that is already clean in this sense, it changes none of      *)
(* them.                                                                   *)
C34_Observable ==
    <<held, tracked_mobs, detected_mobs, current_target, mc_current_target,
      skill_cooldowns>>

C34_CleanupComplete ==
    [][cleanup("loop") =>
         /\ ~raised'["loop"]
         /\ held' = {}
         /\ tracked_mobs' = <<>>
         /\ detected_mobs' = <<>>
         /\ current_target' = None
         /\ mc_current_target' = None
         /\ skill_cooldowns' = <<>>
         /\ C34_Observable = <<{}, <<>>, <<>>, None, None, <<>>>> =>
                C34_Observable' = C34_Observable]_vars

(* C35: a failed load is surfaced and atomic.  When loading a class script *)
(* or a route fails, the call tells its caller (the class load raises, the *)
(* route load returns False) and the loaded combos, the route and the      *)
(* waypoint index are what they were before the call.                      *)
C35_FailedLoadAtomic ==
    [][/\ \A class_name \in ClassNames :
             load_class("loop", class_name) /\ LoadFails(class_name) =>
                 /\ raised'["loop"]
                 /\ UNCHANGED <<combos, current_route, alternative_route,
                                current_waypoint_index>>
       /\ \A route_name \in RouteNames :
             load_route(route_name) /\ RouteScript(route_name) = None =>
                 /\ loaded' = "false"
                 /\ UNCHANGED <<combos, current_route, alternative_route,
                                current_waypoint_index>>]_vars

(* C36: the PvP check is rate-limited.  A tick moves the time stamp of     *)
(* the check only when at least 1.0 s has passed since the stamp, and a    *)
(* tick that starts less than 1.0 s after the stamp leaves it alone and    *)
(* does not take the PvP exit, hostile players or not.                     *)
C36_PvpRateLimited ==
    [][combat_update("loop", CombatRuns) =>
         /\ last_pvp_check' # last_pvp_check =>
                /\ now - last_pvp_check >= 1
                /\ last_pvp_check' = now
         /\ now - last_pvp_check < 1 =>
                /\ last_pvp_check' = last_pvp_check
                /\ \A i \in 1..Len(trace') : trace'[i] # "pvp"]_vars

(* A tick has just gone past the PvP gate with a hostile player nearby,    *)
(* at the instant of the last check.                                       *)
C36_HostileWithinWindow ==
    /\ cur = "loop"
    /\ At("loop", "update_combat_state", "acquire")
    /\ Len(stack["loop"]) = 2
    /\ stack["loop"][1] = UpdateFrame("await", "emergency")
    /\ trace = <<"gate_open", "failed", "emergency", "exit_combat">>
    /\ HostileNearby
    /\ last_pvp_check = now

(* C37: GameState never deadlocks.  A task that holds the lock is never    *)
(* itself waiting to take it: such a call could not go on, the lock would  *)
(* never be released, and every later lock-taking operation would wait     *)
(* forever.                                                                *)
C37_HolderNeverWaits ==
    \A t \in Tasks :
        lock = t =>
            ~(/\ ~Idle(t)
              /\ Top(t).pc = "acquire"
              /\ TakesLock(Top(t).op))

(* C38: the two cooldown records agree.  At every time, for every loaded   *)
(* combo, ComboManager's own cooldown check (on its execution history)     *)
(* passes if and only if GameState.can_use_skill(combo name) is true.      *)
C38_CooldownRecordsAgree ==
    \A i \in 1..Len(combos) :
        _check_cooldown(combos[i]) <=> can_use_skill(combos[i].name)

(* C39: within one tracking cycle no two detections are associated with    *)
(* the same tracked entity: after process_frame over k detections the new  *)
(* tracked table has exactly k entries.                                    *)
C39_OneEntryPerDetection ==
    [][\A dets \in Detections :
           ProcessFrameOf("loop", {dets}, MaxId) =>
               Len(tracked_mobs') = Len(dets)]_vars

(* C40: engagement eventually happens.  With the loop ticking, if from     *)
(* some point on at least min_group_size entities are tracked, hp and mp   *)
(* are above their floors, no player is nearby and the character is not    *)
(* stunned, knocked down or dead, then eventually the orchestrator is in   *)
(* combat (in_combat, CombatState Attacking) and a combo has been run.     *)
C40_Conditions ==
    /\ Len(tracked_mobs) >= min_group_size
    /\ _check_resources
    /\ nearby_players = <<>>
    /\ character_state \notin {"stunned", "knockdown", "dead"}

C40_Engaged ==
    /\ in_combat
    /\ combat_state = "attacking"
    /\ exec_log # <<>>

C40_LoopTicks ==
    []<><<ProcessFrameOf("loop", CombatDetections, MaxId)>>_vars

C40_EventuallyEngaged ==
    (C40_LoopTicks /\ <>[]C40_Conditions) => <>C40_Engaged

====
